---------------------------- MODULE Spec2Model ----------------------------
(***************************************************************************)
(* A model of apicostmultiplier (src/functions.py): the config store       *)
(* adapters with their one-time backup, the literal patcher of default.py, *)
(* the process runner (RunnerThread.run), the launch handlers of           *)
(* MainWindow, the readers, write_configs, the presets, the value helpers, *)
(* load_current_values and the Master Quality slider.                      *)
(*                                                                         *)
(* The module holds several specifications over one set of variables; a    *)
(* specification leaves the variables of the other parts at their initial  *)
(* values:                                                                 *)
(*   SpecBackup  write_yaml / write_json / write_text on one config file   *)
(*   SpecPatch   one call of replace_number_in_default_py on one text      *)
(*   SpecRunner  one run of RunnerThread.run, with its child and its pipes *)
(*   Spec        the window: the handlers that write and launch            *)
(*   SpecRead    one call of read_yaml / read_json on one file             *)
(*   SpecWrite   one call of write_configs on the four artifacts           *)
(*   SpecPreset  the preset handlers: edit, save and load                  *)
(*   SpecFn      clamp_int and temp_from_slider, each applied twice        *)
(*   SpecTrip    replace_number_in_default_py, then the text read back     *)
(*   SpecLoad    load_current_values, then write_configs                   *)
(*   SpecQuality moves of the Master Quality slider around write_configs   *)
(*   SpecRunnerFair  SpecRunner with the thread and the child scheduled    *)
(***************************************************************************)
EXTENDS Integers, Sequences, FiniteSets, TLC

VARIABLES
    \* ---- config store adapters (one config file and its .bak) ----
    f_kind,         \* format of the file: which adapter writes it
    yaml_installed, \* the module-level `yaml` is not None
    f_content,      \* content of the file, or Absent
    f_bak,          \* content of <name>.bak, or Absent
    f_orig,         \* history: content of the file in the initial state
    f_nwrites,      \* history: number of writes that returned normally
    f_copy_failed,  \* history: a backup copy raised (and was swallowed)
    f_raised,       \* the last write call raised
    \* ---- process runner (RunnerThread.run and its child) ----
    os_environ,     \* the caller's value of PYTHONIOENCODING, or Unset
    r_pc,           \* position of RunnerThread.run
    r_env,          \* run's local `env`: its value of PYTHONIOENCODING
    r_log,          \* the log sink: the lines printed, in order
    r_outcomes,     \* the finished_ok signals emitted by this run, in order
    c_state,        \* the child: "none", "running" or "exited"
    c_env,          \* the child's value of PYTHONIOENCODING
    c_prog,         \* the child's remaining writes, "out" or "err" each
    c_code,         \* the exit code the child ends with
    c_nlines,       \* number of lines the child has written
    p_out,          \* lines in the stdout pipe, written and not yet read
    p_err,          \* lines in the stderr pipe, written and not yet read
    \* ---- MainWindow: the launch handlers ----
    g_ui,           \* the state of the widgets: what gather_values() returns
    g_btn_run,      \* btn_run.isEnabled()
    g_written,      \* the vals of the last write_configs, if it returned
    g_launch,       \* history: the last launch of generate.py, or NoLaunch
    g_orphans,      \* children of earlier runs that are still running
    g_procs,        \* per kind: running processes the handlers started
    g_dialog,       \* the last message box: "none", "info" or "error"
    \* ---- literal patcher (one call on one text) ----
    pt_text,        \* the text of default.py given to the call
    pt_key,         \* the key given to the call
    pt_value,       \* new_value, in hundredths
    pt_pc,          \* "input" before the call, "replaced" after it
    pt_out,         \* the text the call returned
    pt_flag,        \* the flag the call returned
    \* ---- readers (one call of read_yaml or read_json on one file) ----
    rd_fmt,         \* "yaml" or "json": which reader is called
    rd_file,        \* the file given to the call: <<text>> or Absent
    rd_pc,          \* "input" before the call, "returned" or "raised" after it
    rd_result,      \* what the call returned
    \* ---- MainWindow.write_configs on the four artifacts ----
    w_ui,           \* the widgets: sliders, paths and checkable group boxes
    w_file,         \* per artifact: the file, <<text>> or Absent
    w_bak,          \* per artifact: <name>.bak, <<text>> or Absent
    w_before,       \* history: w_file when the last write_configs was called
    w_pc,           \* "idle" before the call, "returned" or "raised" after it
    w_vals,         \* the vals given to the last write_configs
    w_fault,        \* history: the step the file system refused in that call
    w_error,        \* the artifact the RuntimeError names, or "none"
    w_tried,        \* the artifacts whose block the last call entered, in order
    w_warn,         \* the [WARN] lines the last call printed about default.py
    \* ---- MainWindow: presets ----
    u_ui,           \* the widgets, as in w_ui
    u_presets,      \* presets.yaml: <<text>> or Absent
    u_presets_bak,  \* presets.yaml.bak
    u_pc,           \* "edit", or "loaded" right after a preset was applied
    u_item,         \* the name of the preset applied last
    u_before,       \* history: the widgets when that preset was applied (the
                    \* widgets as they are, while u_pc = "edit")
    \* ---- the value helpers (one call of clamp_int or temp_from_slider) ----
    fn_op,          \* the function called
    fn_x,           \* its first argument
    fn_lo,          \* min_v of clamp_int
    fn_hi,          \* max_v of clamp_int
    fn_pc,          \* number of calls made: the second call is given fn_out
    fn_out,         \* what each call returned, in order
    \* ---- the patcher's output read back ----
    pt_read,        \* what extract_number_from_default_py returned for pt_out
    \* ---- MainWindow: the sliders and the Master Quality slider ----
    q_range,        \* per slider: its minimum and maximum (config_sliders.ui)
    q_master,       \* sliderMasterQuality: minimum, maximum and value
    q_pc,           \* the handler that ran last: "none", "load", "master"
    q_calls,        \* calls of on_master_quality_changed for the last move
    q_before        \* history: the widgets before the last handler ran

fileVars == <<f_kind, yaml_installed, f_content, f_bak, f_orig, f_nwrites,
              f_copy_failed, f_raised>>

runVars == <<os_environ, r_pc, r_env, r_log, r_outcomes, c_state, c_env, c_prog,
             c_code, c_nlines, p_out, p_err>>

guiVars == <<g_ui, g_btn_run, g_written, g_launch, g_orphans, g_procs, g_dialog>>

patchVars == <<pt_text, pt_key, pt_value, pt_pc, pt_out, pt_flag>>

readVars == <<rd_fmt, rd_file, rd_pc, rd_result>>

cfgVars == <<w_ui, w_file, w_bak, w_before, w_pc, w_vals, w_fault, w_error,
             w_tried, w_warn>>

presetVars == <<u_ui, u_presets, u_presets_bak, u_pc, u_item, u_before>>

fnVars == <<fn_op, fn_x, fn_lo, fn_hi, fn_pc, fn_out>>

tripVars == <<pt_read>>

qualVars == <<q_range, q_master, q_pc, q_calls, q_before>>

laterVars == <<fnVars, tripVars, qualVars>>

vars == <<fileVars, runVars, guiVars, patchVars, readVars, cfgVars, presetVars,
          laterVars>>

-----------------------------------------------------------------------------
\* the sequences over S of length at most n
RECURSIVE SeqsUpTo(_, _)
SeqsUpTo(S, n) ==
    IF n = 0 THEN {<<>>}
    ELSE LET shorter == SeqsUpTo(S, n - 1)
         IN shorter \cup {Append(q, x) : q \in {r \in shorter : Len(r) = n - 1}, x \in S}

(***************************************************************************)
(* Config store adapters, src/functions.py lines 32-85.                    *)
(* A document is an opaque value 1..MaxDoc; a file is <<d>> when it holds  *)
(* document d and Absent when there is no such file.                       *)
(***************************************************************************)
MaxDoc == 2
MaxWrites == 3

Absent == <<>>
Docs == 1..MaxDoc
Files == {<<d>> : d \in Docs} \cup {Absent}
Kinds == {"yaml", "json", "text"}

\* backup_once(path): copy path to path.bak when path exists and path.bak
\* does not; a failing copy is swallowed (lines 37-39).  copy_ok is the
\* outcome of shutil.copy2.  Result: the new content of path.bak.
backup_once_always(content, bak, copy_ok) ==
    IF content # Absent /\ copy_ok THEN content ELSE bak

backup_once_if_bak(content, bak, copy_ok) ==
    IF content # Absent /\ bak # Absent /\ copy_ok THEN content ELSE bak

backup_once(content, bak, copy_ok) ==
    IF content # Absent /\ bak = Absent /\ copy_ok THEN content ELSE bak

\* backup_once reached the except branch
backup_raised(content, bak, copy_ok) ==
    content # Absent /\ bak = Absent /\ ~copy_ok

\* The body shared by the three writers: backup_once(path), then
\* open(path, "w") and dump.  open_ok is the outcome of path.open("w"):
\* when it raises, the backup has already been taken and the file is as it was.
write_file(data, copy_ok, open_ok) ==
    /\ f_nwrites < MaxWrites
    /\ f_bak' = backup_once(f_content, f_bak, copy_ok)
    /\ f_copy_failed' = (f_copy_failed \/ backup_raised(f_content, f_bak, copy_ok))
    /\ IF open_ok
         THEN /\ f_content' = <<data>>
              /\ f_nwrites' = f_nwrites + 1
              /\ f_raised' = FALSE
         ELSE /\ UNCHANGED <<f_content, f_nwrites>>
              /\ f_raised' = TRUE
    /\ UNCHANGED <<f_kind, yaml_installed, f_orig>>
    /\ UNCHANGED <<runVars, guiVars, patchVars, readVars, cfgVars, presetVars, laterVars>>

\* write_yaml(path, data), lines 54-59
write_yaml ==
    /\ f_kind = "yaml"
    /\ IF ~yaml_installed
         THEN /\ f_raised' = TRUE
              /\ UNCHANGED <<f_kind, yaml_installed, f_content, f_bak, f_orig,
                             f_nwrites, f_copy_failed>>
              /\ UNCHANGED <<runVars, guiVars, patchVars, readVars, cfgVars, presetVars, laterVars>>
         ELSE \E data \in Docs, copy_ok \in BOOLEAN, open_ok \in BOOLEAN :
                  write_file(data, copy_ok, open_ok)

\* write_json(path, data), lines 69-72
write_json ==
    /\ f_kind = "json"
    /\ \E data \in Docs, copy_ok \in BOOLEAN, open_ok \in BOOLEAN :
           write_file(data, copy_ok, open_ok)

\* write_text(path, content), lines 82-85
write_text ==
    /\ f_kind = "text"
    /\ \E data \in Docs, copy_ok \in BOOLEAN, open_ok \in BOOLEAN :
           write_file(data, copy_ok, open_ok)

\* A config file of any format, present or absent, with no backup yet.
InitFiles ==
    /\ f_kind \in Kinds
    /\ yaml_installed \in BOOLEAN
    /\ f_content \in Files
    /\ f_bak = Absent
    /\ f_orig = f_content
    /\ f_nwrites = 0
    /\ f_copy_failed = FALSE
    /\ f_raised = FALSE

IdleFiles ==
    /\ f_kind = "yaml"
    /\ yaml_installed = TRUE
    /\ f_content = Absent
    /\ f_bak = Absent
    /\ f_orig = Absent
    /\ f_nwrites = 0
    /\ f_copy_failed = FALSE
    /\ f_raised = FALSE

-----------------------------------------------------------------------------
(***************************************************************************)
(* Literal patcher, src/functions.py lines 88-127.                         *)
(*                                                                         *)
(* A text is a sequence of symbols.  A symbol is one character, except     *)
(* that the words the patterns match as a whole are one symbol each: "Q"   *)
(* is the double quote, "K" and "J" are key names, "D" is DEFAULT_CONFIG,  *)
(* "B" is BaseConfig and "x" is any other character.  A number (new_value, *)
(* and what float() returns) is an integer count of hundredths.            *)
(***************************************************************************)
MaxPieces == 4

DigitChars == <<"0", "1", "2", "3", "4", "5", "6", "7", "8", "9">>
Digits == {DigitChars[i] : i \in 1..10}
IsWs(c) == c \in {" ", "\n"}
IsDigit(c) == c \in Digits
EndOfText == "EOF"

At(t, i) == IF i >= 1 /\ i <= Len(t) THEN t[i] ELSE EndOfText

\* \s* from position i on: the position after the whitespace
RECURSIVE SkipWs(_, _)
SkipWs(t, i) == IF IsWs(At(t, i)) THEN SkipWs(t, i + 1) ELSE i

\* \d* from position i on: the position after the digits
RECURSIVE SkipDigits(_, _)
SkipDigits(t, i) == IF IsDigit(At(t, i)) THEN SkipDigits(t, i + 1) ELSE i

\* The pattern of lines 98 and 123, ("KEY"\s*:\s*)(-?\d+(?:\.\d+)?), tried at
\* position i: whether it matches, and the span [from, to) of group 2.
SiteMatch(t, key, i) ==
    LET colon == SkipWs(t, i + 3)
        num == SkipWs(t, colon + 1)
        int == IF At(t, num) = "-" THEN num + 1 ELSE num
        dot == SkipDigits(t, int)
        frac == SkipDigits(t, dot + 1)
    IN [ok |-> /\ At(t, i) = "Q" /\ At(t, i + 1) = key /\ At(t, i + 2) = "Q"
               /\ At(t, colon) = ":"
               /\ dot > int,
        from |-> num,
        to |-> IF At(t, dot) = "." /\ frac > dot + 1 THEN frac ELSE dot]

\* re.search(pattern, t): the leftmost position >= i where the pattern
\* matches, 0 when there is none
RECURSIVE SearchSite(_, _, _)
SearchSite(t, key, i) ==
    IF i > Len(t) THEN 0
    ELSE IF SiteMatch(t, key, i).ok THEN i
    ELSE SearchSite(t, key, i + 1)

\* the decimal digits of a natural number
RECURSIVE DigitsOf(_)
DigitsOf(n) ==
    IF n < 10 THEN <<DigitChars[n + 1]>>
    ELSE Append(DigitsOf(n \div 10), DigitChars[(n % 10) + 1])

DigitVal(c) == CHOOSE d \in 0..9 : DigitChars[d + 1] = c

\* the natural number a sequence of digits writes
RECURSIVE NumberOf(_)
NumberOf(ds) ==
    IF ds = <<>> THEN 0
    ELSE 10 * NumberOf(SubSeq(ds, 1, Len(ds) - 1)) + DigitVal(ds[Len(ds)])

\* float(lit) of a literal -?\d+(\.\d+)? with at most two decimals, line 105
to_float(lit) ==
    LET neg == At(lit, 1) = "-"
        int == IF neg THEN 2 ELSE 1
        dot == SkipDigits(lit, int)
        whole == NumberOf(SubSeq(lit, int, dot - 1))
        decimals == SubSeq(lit, dot + 1, Len(lit))
        part == IF Len(decimals) = 1 THEN 10 * NumberOf(decimals)
                ELSE NumberOf(decimals)
        mag == 100 * whole + part
    IN IF neg THEN -mag ELSE mag

Abs(v) == IF v < 0 THEN -v ELSE v
Sign(v) == IF v < 0 THEN <<"-">> ELSE <<>>

\* _fmt(v), lines 117-121: str(int(v)) when v is whole, else f"{v:.2f}"
fmt_always_2f(v) ==
    Sign(v) \o DigitsOf(Abs(v) \div 100) \o <<".">>
        \o <<DigitChars[((Abs(v) % 100) \div 10) + 1], DigitChars[(Abs(v) % 10) + 1]>>

fmt(v) ==
    IF Abs(v) % 100 = 0
      THEN Sign(v) \o DigitsOf(Abs(v) \div 100)
      ELSE Sign(v) \o DigitsOf(Abs(v) \div 100) \o <<".">>
               \o <<DigitChars[((Abs(v) % 100) \div 10) + 1],
                    DigitChars[(Abs(v) % 10) + 1]>>

\* re.subn(pattern, _repl, text, count=1), line 126, with the match at
\* position i: group 1 is kept, group 2 becomes _fmt(new_value)
Splice(t, key, i, v) ==
    LET m == SiteMatch(t, key, i)
    IN SubSeq(t, 1, m.from - 1) \o fmt(v) \o SubSeq(t, m.to, Len(t))

\* the last position where the pattern matches, 0 when there is none
RECURSIVE SearchLastSite(_, _, _)
SearchLastSite(t, key, i) ==
    IF i < 1 THEN 0
    ELSE IF SiteMatch(t, key, i).ok THEN i
    ELSE SearchLastSite(t, key, i - 1)

replace_last_site(t, key, v) ==
    LET i == SearchLastSite(t, key, Len(t))
    IN IF i = 0 THEN <<t, FALSE>> ELSE <<Splice(t, key, i, v), TRUE>>

\* replace_number_in_default_py(text, key, new_value), lines 111-127:
\* the pair (new_text, replaced_flag)
replace_flag_n_ge_0(t, key, v) ==
    LET i == SearchSite(t, key, 1)
    IN IF i = 0 THEN <<t, TRUE>> ELSE <<Splice(t, key, i, v), TRUE>>

replace_number_in_default_py(t, key, v) ==
    LET i == SearchSite(t, key, 1)
    IN IF i = 0 THEN <<t, FALSE>> ELSE <<Splice(t, key, i, v), TRUE>>

\* The header of line 96, DEFAULT_CONFIG\s*:\s*BaseConfig\s*=\s*\{, tried at
\* position i: whether it matches, and the position after the brace.
HeaderMatch(t, i) ==
    LET colon == SkipWs(t, i + 1)
        base == SkipWs(t, colon + 1)
        eq == SkipWs(t, base + 1)
        brace == SkipWs(t, eq + 1)
    IN [ok |-> /\ At(t, i) = "D" /\ At(t, colon) = ":" /\ At(t, base) = "B"
               /\ At(t, eq) = "=" /\ At(t, brace) = "{",
        body |-> brace + 1]

\* \}\s*$ under re.MULTILINE at position i: a closing brace with nothing but
\* whitespace up to the end of its line
RECURSIVE SkipBlanks(_, _)
SkipBlanks(t, i) == IF At(t, i) = " " THEN SkipBlanks(t, i + 1) ELSE i

ClosesAt(t, i) ==
    /\ At(t, i) = "}"
    /\ At(t, SkipBlanks(t, i + 1)) \in {"\n", EndOfText}

\* (.*?) under re.DOTALL: the first closing brace at or after position i,
\* 0 when there is none
RECURSIVE SearchClose(_, _)
SearchClose(t, i) ==
    IF i > Len(t) THEN 0
    ELSE IF ClosesAt(t, i) THEN i
    ELSE SearchClose(t, i + 1)

\* re.search of line 96: the leftmost header that has a closing brace after
\* it; found, and the span [from, to) of group 1
RECURSIVE SearchBlock(_, _)
SearchBlock(t, i) ==
    IF i > Len(t) THEN [found |-> FALSE, from |-> 0, to |-> 0]
    ELSE LET h == HeaderMatch(t, i)
             close == IF h.ok THEN SearchClose(t, h.body) ELSE 0
         IN IF h.ok /\ close # 0
              THEN [found |-> TRUE, from |-> h.body, to |-> close]
              ELSE SearchBlock(t, i + 1)

config_block(t) == SearchBlock(t, 1)

\* The pieces the texts are made of.
Header == <<"D", ":", " ", "B", " ", "=", " ", "{", "\n">>
Close == <<"}", "\n">>
CloseInline == <<"}", ",", "\n">>
SiteK1 == <<"Q", "K", "Q", ":", " ", "4", ",", "\n">>
SiteK2 == <<"Q", "K", "Q", " ", ":", "0", ".", "4", "0", ",", "\n">>
SiteJ == <<"Q", "J", "Q", ":", " ", "-", "1", "2", ",", "\n">>
NoSiteK == <<"Q", "K", "Q", ":", " ", "x", "\n">>
Pieces == {Header, Close, CloseInline, SiteK1, SiteK2, SiteJ, NoSiteK}

RECURSIVE Flatten(_)
Flatten(ps) == IF ps = <<>> THEN <<>> ELSE Head(ps) \o Flatten(Tail(ps))

Texts == {Flatten(ps) : ps \in SeqsUpTo(Pieces, MaxPieces)}
Keys == {"K", "J"}
Values == {500, 75, -50}

\* extract_number_from_default_py(text, key), lines 88-108: the number of
\* the first site inside the DEFAULT_CONFIG block (the whole text when there
\* is no block), else of the first site of the whole text; <<number>>, or
\* None == <<>> when no site is found
literal_at(t, key, i) ==
    LET m == SiteMatch(t, key, i) IN SubSeq(t, m.from, m.to - 1)

extract_number_from_default_py(t, key) ==
    LET m_cfg == config_block(t)
        scope == IF m_cfg.found THEN SubSeq(t, m_cfg.from, m_cfg.to - 1) ELSE t
        i == SearchSite(scope, key, 1)
        j == SearchSite(t, key, 1)
    IN IF i # 0 THEN <<to_float(literal_at(scope, key, i))>>
       ELSE IF j # 0 THEN <<to_float(literal_at(t, key, j))>>
       ELSE <<>>

\* The texts a written value is read back from.
TripPieces == {Header, Close, SiteK1, SiteK2, NoSiteK}
TripTexts == {Flatten(ps) : ps \in SeqsUpTo(TripPieces, MaxPieces)}

\* the text the patcher returned is read at the next start of the window:
\* set_from_py, lines 390-401
do_extract ==
    /\ pt_pc = "replaced"
    /\ pt_read' = extract_number_from_default_py(pt_out, pt_key)
    /\ pt_pc' = "read"
    /\ UNCHANGED <<pt_text, pt_key, pt_value, pt_out, pt_flag>>
    /\ UNCHANGED <<fileVars, runVars, guiVars, readVars, cfgVars, presetVars,
                   fnVars, qualVars>>

\* one call of replace_number_in_default_py
do_replace ==
    /\ pt_pc = "input"
    /\ LET r == replace_number_in_default_py(pt_text, pt_key, pt_value)
       IN /\ pt_out' = r[1]
          /\ pt_flag' = r[2]
    /\ pt_pc' = "replaced"
    /\ UNCHANGED <<pt_text, pt_key, pt_value>>
    /\ UNCHANGED <<fileVars, runVars, guiVars, readVars, cfgVars, presetVars, laterVars>>

IdlePatch ==
    /\ pt_text = <<>>
    /\ pt_key = "K"
    /\ pt_value = 0
    /\ pt_pc = "idle"
    /\ pt_out = <<>>
    /\ pt_flag = FALSE

IdleTrip == pt_read = <<>>

-----------------------------------------------------------------------------
(***************************************************************************)
(* Process runner, src/functions.py lines 130-168.                         *)
(*                                                                         *)
(* The child is opaque: a program is the sequence of lines it writes, each *)
(* to stdout ("out") or stderr ("err"), and the exit code it ends with.    *)
(* A pipe holds at most PipeCap lines; a write to a full pipe blocks.      *)
(***************************************************************************)
MaxLines == 2
PipeCap == 1

Unset == "unset"
EnvVals == {Unset, "utf-8", "latin-1"}
ExitCodes == {0, 2}
Streams == {"out", "err"}

Programs == SeqsUpTo(Streams, MaxLines)

Line(stream, n) == [s |-> stream, n |-> n]

\* env.setdefault("PYTHONIOENCODING", "utf-8"), line 142
setdefault_utf8(env) == IF env = Unset THEN "utf-8" ELSE env

\* The environment subprocess.Popen gives the child, lines 144-154: the call
\* passes no env=, so the child inherits os.environ and not the local `env`.
popen_env_local(environ, env) == env

popen_env(environ, env) == environ

\* self.finished_ok.emit(ok, code, msg)
emit(ok, code, msg) ==
    r_outcomes' = Append(r_outcomes, [ok |-> ok, code |-> code, msg |-> msg])

\* lines 164-166: the outcome computed from proc.returncode
outcome_ok_nonneg(returncode) == returncode >= 0

outcome_ok(returncode) == returncode = 0

outcome_msg(returncode) ==
    IF outcome_ok(returncode) THEN "finished successfully" ELSE "exited with code"

\* lines 140-154: env = os.environ.copy(); env.setdefault(...); Popen(...).
\* Popen raising is caught at line 167 and reported with code -1.
run_popen ==
    /\ r_pc = "start"
    /\ r_env' = setdefault_utf8(os_environ)
    /\ \E spawn_ok \in BOOLEAN :
         IF spawn_ok
           THEN /\ \E prog \in Programs, code \in ExitCodes :
                      /\ c_prog' = prog
                      /\ c_code' = code
                /\ c_state' = "running"
                /\ c_env' = popen_env(os_environ, r_env')
                /\ c_nlines' = 0
                /\ p_out' = <<>>
                /\ p_err' = <<>>
                /\ r_pc' = "stdout"
                /\ UNCHANGED r_outcomes
           ELSE /\ emit(FALSE, -1, "Failed to run")
                /\ r_pc' = "done"
                /\ UNCHANGED <<c_state, c_env, c_prog, c_code, c_nlines, p_out, p_err>>
    /\ UNCHANGED <<os_environ, r_log>>
    /\ UNCHANGED <<fileVars, guiVars, patchVars, readVars, cfgVars, presetVars, laterVars>>

\* print(line, end="", flush=True), lines 159 and 161.  sink_ok is whether the
\* print returns; when it raises, the handler of line 167 reports code -1
\* and run returns, whatever the child is doing.
forward(line, sink_ok) ==
    IF sink_ok
      THEN /\ r_log' = Append(r_log, line)
           /\ UNCHANGED <<r_pc, r_outcomes>>
      ELSE /\ emit(FALSE, -1, "Failed to run")
           /\ r_pc' = "done"
           /\ UNCHANGED r_log

\* one iteration of `for line in proc.stdout`, lines 158-159
run_read_stdout ==
    /\ r_pc = "stdout"
    /\ p_out # <<>>
    /\ p_out' = Tail(p_out)
    /\ \E sink_ok \in BOOLEAN : forward(Head(p_out), sink_ok)
    /\ UNCHANGED <<os_environ, r_env, c_state, c_env, c_prog, c_code, c_nlines, p_err>>
    /\ UNCHANGED <<fileVars, guiVars, patchVars, readVars, cfgVars, presetVars, laterVars>>

\* `for line in proc.stdout` ends: the pipe is empty and its write end closed
run_stdout_eof ==
    /\ r_pc = "stdout"
    /\ p_out = <<>>
    /\ c_state = "exited"
    /\ r_pc' = "stderr"
    /\ UNCHANGED <<os_environ, r_env, r_log, r_outcomes, c_state, c_env, c_prog,
                   c_code, c_nlines, p_out, p_err>>
    /\ UNCHANGED <<fileVars, guiVars, patchVars, readVars, cfgVars, presetVars, laterVars>>

\* one iteration of `for line in proc.stderr`, lines 160-161
run_read_stderr ==
    /\ r_pc = "stderr"
    /\ p_err # <<>>
    /\ p_err' = Tail(p_err)
    /\ \E sink_ok \in BOOLEAN : forward(Head(p_err), sink_ok)
    /\ UNCHANGED <<os_environ, r_env, c_state, c_env, c_prog, c_code, c_nlines, p_out>>
    /\ UNCHANGED <<fileVars, guiVars, patchVars, readVars, cfgVars, presetVars, laterVars>>

\* `for line in proc.stderr` ends
run_stderr_eof ==
    /\ r_pc = "stderr"
    /\ p_err = <<>>
    /\ c_state = "exited"
    /\ r_pc' = "wait"
    /\ UNCHANGED <<os_environ, r_env, r_log, r_outcomes, c_state, c_env, c_prog,
                   c_code, c_nlines, p_out, p_err>>
    /\ UNCHANGED <<fileVars, guiVars, patchVars, readVars, cfgVars, presetVars, laterVars>>

\* proc.wait() returns and the outcome is emitted, lines 163-166
run_wait ==
    /\ r_pc = "wait"
    /\ c_state = "exited"
    /\ emit(outcome_ok(c_code), c_code, outcome_msg(c_code))
    /\ r_pc' = "done"
    /\ UNCHANGED <<os_environ, r_env, r_log, c_state, c_env, c_prog, c_code,
                   c_nlines, p_out, p_err>>
    /\ UNCHANGED <<fileVars, guiVars, patchVars, readVars, cfgVars, presetVars, laterVars>>

\* the child writes its next line; the write blocks while the pipe is full
child_write ==
    /\ c_state = "running"
    /\ c_prog # <<>>
    /\ IF Head(c_prog) = "out"
         THEN /\ Len(p_out) < PipeCap
              /\ p_out' = Append(p_out, Line("out", c_nlines + 1))
              /\ UNCHANGED p_err
         ELSE /\ Len(p_err) < PipeCap
              /\ p_err' = Append(p_err, Line("err", c_nlines + 1))
              /\ UNCHANGED p_out
    /\ c_prog' = Tail(c_prog)
    /\ c_nlines' = c_nlines + 1
    /\ UNCHANGED <<os_environ, r_pc, r_env, r_log, r_outcomes, c_state, c_env, c_code>>
    /\ UNCHANGED <<fileVars, guiVars, patchVars, readVars, cfgVars, presetVars, laterVars>>

\* the child has written everything and exits, closing its ends of the pipes
child_exit ==
    /\ c_state = "running"
    /\ c_prog = <<>>
    /\ c_state' = "exited"
    /\ UNCHANGED <<os_environ, r_pc, r_env, r_log, r_outcomes, c_env, c_prog, c_code,
                   c_nlines, p_out, p_err>>
    /\ UNCHANGED <<fileVars, guiVars, patchVars, readVars, cfgVars, presetVars, laterVars>>

\* no thread, no child
IdleRunner ==
    /\ r_env = Unset
    /\ r_log = <<>>
    /\ r_outcomes = <<>>
    /\ c_state = "none"
    /\ c_env = Unset
    /\ c_prog = <<>>
    /\ c_code = 0
    /\ c_nlines = 0
    /\ p_out = <<>>
    /\ p_err = <<>>


-----------------------------------------------------------------------------
(***************************************************************************)
(* Documents read by read_yaml and read_json, src/functions.py lines       *)
(* 42-51 and 62-66.                                                        *)
(*                                                                         *)
(* The text of a YAML or JSON file is a record [kind, body]: kind says     *)
(* what the parser makes of the text ("map" a mapping, "list" a non-empty  *)
(* list, "empty" a text with no document, "garbage" a text that is not     *)
(* well-formed), body holds, for a mapping, the text of each value: an     *)
(* integer is written as its decimal literal, and NoLit stands for a key   *)
(* the mapping does not have.  A parsed value is [type, map], the map      *)
(* holding <<n>> for the integer n and None for a missing key.             *)
(***************************************************************************)
NoLit == <<>>
None == <<>>

\* the text yaml.safe_dump / json.dump write for an integer
int_dump(n) == Sign(n) \o DigitsOf(Abs(n))

\* the integer the parsers read from a decimal literal
int_load(lit) ==
    IF At(lit, 1) = "-" THEN -NumberOf(SubSeq(lit, 2, Len(lit)))
    ELSE NumberOf(lit)

\* a value of a mapping, from its text and back
value_load(lit) == IF lit = NoLit THEN None ELSE <<int_load(lit)>>
value_dump(v) == IF v = None THEN NoLit ELSE int_dump(v[1])

TextKinds == {"map", "list", "empty", "garbage"}

\* the mapping of task.json: max_sections and one key the panel does not manage
TaskKeys == {"max_sections", "rest"}
task_load(body) == [k \in TaskKeys |-> value_load(body[k])]
task_dump(map) == [k \in TaskKeys |-> value_dump(map[k])]
TaskEmpty == [k \in TaskKeys |-> None]

Returned(type, map) == [raised |-> FALSE, type |-> type, map |-> map]
Raised(empty) == [raised |-> TRUE, type |-> "none", map |-> empty]

-----------------------------------------------------------------------------
(***************************************************************************)
(* The value helpers, src/functions.py lines 18-29.                        *)
(*                                                                         *)
(* A float with two decimals is an integer count of hundredths, as in the  *)
(* patcher.  The quotient num / den of two integers, den > 0, is rounded   *)
(* as Python's round does: to the nearest, a tie to the even neighbour.    *)
(***************************************************************************)
MaxArg == 3
TempMargin == 2

\* round(num / den), den > 0
round_half_even(num, den) ==
    LET q == num \div den
        r == num % den
    IN IF 2 * r < den THEN q
       ELSE IF 2 * r > den THEN q + 1
       ELSE IF q % 2 = 0 THEN q ELSE q + 1

\* the built-ins max and min on two integers
py_max(a, b) == IF a >= b THEN a ELSE b
py_min(a, b) == IF a <= b THEN a ELSE b

\* clamp_int(value, min_v, max_v), lines 18-19
clamp_int_upper_only(value, min_v, max_v) == py_min(max_v, value)

clamp_int(value, min_v, max_v) == py_max(min_v, py_min(max_v, value))

\* temp_from_slider(v), lines 22-29, in hundredths: round(v / 100.0, 2) is
\* the count of hundredths nearest to v / 100
temp_from_slider_no_clamp(v) == round_half_even(100 * v, 100)

temp_from_slider(v) ==
    LET f == round_half_even(100 * v, 100)
    IN IF f < 0 THEN 0 ELSE IF f > 100 THEN 100 ELSE f

\* round(100 * f) of a float f given in hundredths
times_100_rounded(f) == round_half_even(100 * f, 100)

\* The arguments of a call.
ClampArgs == (0 - MaxArg)..(2 * MaxArg)
ClampBounds == 0..MaxArg
TempArgs == (0 - TempMargin)..(100 + TempMargin)

\* one call; the second call is given what the first returned
do_clamp_int ==
    /\ fn_op = "clamp_int"
    /\ fn_pc < 2
    /\ LET arg == IF fn_pc = 0 THEN fn_x ELSE fn_out[1]
       IN fn_out' = Append(fn_out, clamp_int(arg, fn_lo, fn_hi))
    /\ fn_pc' = fn_pc + 1
    /\ UNCHANGED <<fn_op, fn_x, fn_lo, fn_hi>>
    /\ UNCHANGED <<fileVars, runVars, guiVars, patchVars, readVars, cfgVars,
                   presetVars, tripVars, qualVars>>

\* one call; the second call is given round(100 * f) of the first's f
do_temp_from_slider ==
    /\ fn_op = "temp_from_slider"
    /\ fn_pc < 2
    /\ LET arg == IF fn_pc = 0 THEN fn_x ELSE times_100_rounded(fn_out[1])
       IN fn_out' = Append(fn_out, temp_from_slider(arg))
    /\ fn_pc' = fn_pc + 1
    /\ UNCHANGED <<fn_op, fn_x, fn_lo, fn_hi>>
    /\ UNCHANGED <<fileVars, runVars, guiVars, patchVars, readVars, cfgVars,
                   presetVars, tripVars, qualVars>>

IdleFn ==
    /\ fn_op = "none"
    /\ fn_x = 0
    /\ fn_lo = 0
    /\ fn_hi = 0
    /\ fn_pc = 0
    /\ fn_out = <<>>

-----------------------------------------------------------------------------
(***************************************************************************)
(* MainWindow.gather_values and MainWindow.write_configs on the four       *)
(* artifacts, src/functions.py lines 432-510 and 512-717.                  *)
(*                                                                         *)
(* Of the twelve keys of default.py the model keeps two: "K", an integer   *)
(* key such as TOTAL_WORDS, and "J", which stands for TEMPERATURE.         *)
(***************************************************************************)
Artifacts == {"config.yaml", "default_config.yaml", "default.py", "task.json"}
ReportTypes == {"fpf", "gptr", "dr", "ma"}
EnableKeys == ReportTypes \cup {"evaluation", "pairwise"}
PathKeys == {"input_folder", "output_folder", "instructions_file"}

\* gather_values(), lines 432-510, of the widgets ui.  The result is nested:
\* the values of default_config.yaml are under "fpf", max_sections is under
\* "ma", the flags under "enable".  Numbers for default.py are in hundredths.
gather_values_of(ui) ==
    [iterations_default |-> ui.iterations_default,
     paths |-> ui.paths,
     fpf |-> [grounding_max_results |-> ui.grounding_max_results,
              google_max_tokens |-> ui.google_max_tokens],
     py |-> [k \in Keys |-> IF k = "J" THEN temp_from_slider(ui.py[k])
                            ELSE 100 * ui.py[k]],
     ma |-> [max_sections |-> ui.max_sections],
     enable |-> ui.enable,
     dotted |-> <<>>]

\* `key in vals`: the top-level keys of the dict.  gather_values sets the
\* keys below; vals.dotted holds the top-level keys with a dot in their
\* name ("grounding.max_results", "google.max_tokens", "ma.max_sections"),
\* of which gather_values sets none.
ValsKeys ==
    {"iterations_default", "fpf", "ma", "enable"} \cup PathKeys \cup Keys

has_key(vals, key) == key \in ValsKeys \/ key \in DOMAIN vals.dotted

\* ---- the texts of the artifacts ----
\* config.yaml: iterations_default, iterations (a mapping per report type,
\* or something else, or missing), the three paths and one unmanaged key
cfg_load(body) ==
    [iterations_default |-> value_load(body.iterations_default),
     iterations |-> [shape |-> body.iterations.shape,
                     count |-> [t \in ReportTypes |->
                                    value_load(body.iterations.count[t])]],
     paths |-> body.paths,
     rest |-> value_load(body.rest)]

cfg_dump(y) ==
    [iterations_default |-> value_dump(y.iterations_default),
     iterations |-> [shape |-> y.iterations.shape,
                     count |-> [t \in ReportTypes |->
                                    value_dump(y.iterations.count[t])]],
     paths |-> y.paths,
     rest |-> value_dump(y.rest)]

NoPaths == [k \in PathKeys |-> <<>>]
NoCounts == [t \in ReportTypes |-> None]
CfgEmpty ==
    [iterations_default |-> None,
     iterations |-> [shape |-> "none", count |-> NoCounts],
     paths |-> NoPaths,
     rest |-> None]

\* default_config.yaml: the sections grounding and google (a mapping, or
\* something else, or missing) and one unmanaged key
fpf_load(body) ==
    [grounding |-> [shape |-> body.grounding.shape,
                    max_results |-> value_load(body.grounding.max_results)],
     google |-> [shape |-> body.google.shape,
                 max_tokens |-> value_load(body.google.max_tokens)],
     rest |-> value_load(body.rest)]

fpf_dump(fy) ==
    [grounding |-> [shape |-> fy.grounding.shape,
                    max_results |-> value_dump(fy.grounding.max_results)],
     google |-> [shape |-> fy.google.shape,
                 max_tokens |-> value_dump(fy.google.max_tokens)],
     rest |-> value_dump(fy.rest)]

FpfEmpty ==
    [grounding |-> [shape |-> "none", max_results |-> None],
     google |-> [shape |-> "none", max_tokens |-> None],
     rest |-> None]

\* ---- presets.yaml ----
\* presets.yaml maps a preset name to the dict gather_values returned when
\* the preset was saved.  Its body holds, per name, <<text of the dict>>
\* or NoPreset.
PresetNames == {"a"}
NoPreset == <<>>

\* the text yaml.safe_dump writes for a float given in hundredths: repr(v)
float_dump(v) ==
    Sign(v) \o DigitsOf(Abs(v) \div 100) \o <<".">>
        \o (IF Abs(v) % 10 = 0 THEN <<DigitChars[((Abs(v) % 100) \div 10) + 1]>>
            ELSE <<DigitChars[((Abs(v) % 100) \div 10) + 1],
                   DigitChars[(Abs(v) % 10) + 1]>>)

\* the dict of gather_values as yaml.safe_dump writes it and yaml.safe_load
\* reads it: "J" (TEMPERATURE) is a float, every other number an int
vals_dump(vals) ==
    [iterations_default |-> int_dump(vals.iterations_default),
     paths |-> vals.paths,
     fpf |-> [grounding_max_results |-> int_dump(vals.fpf.grounding_max_results),
              google_max_tokens |-> int_dump(vals.fpf.google_max_tokens)],
     py |-> [k \in Keys |-> IF k = "J" THEN float_dump(vals.py[k])
                            ELSE int_dump(vals.py[k] \div 100)],
     ma |-> [max_sections |-> int_dump(vals.ma.max_sections)],
     enable |-> vals.enable,
     dotted |-> vals.dotted]

vals_load(text) ==
    [iterations_default |-> int_load(text.iterations_default),
     paths |-> text.paths,
     fpf |-> [grounding_max_results |-> int_load(text.fpf.grounding_max_results),
              google_max_tokens |-> int_load(text.fpf.google_max_tokens)],
     py |-> [k \in Keys |-> IF k = "J" THEN to_float(text.py[k])
                            ELSE 100 * int_load(text.py[k])],
     ma |-> [max_sections |-> int_load(text.ma.max_sections)],
     enable |-> text.enable,
     dotted |-> text.dotted]

presets_load(body) ==
    [n \in PresetNames |-> IF body[n] = NoPreset THEN None ELSE <<vals_load(body[n][1])>>]

presets_dump(presets) ==
    [n \in PresetNames |->
        IF presets[n] = None THEN NoPreset ELSE <<vals_dump(presets[n][1])>>]

PresetsEmpty == [n \in PresetNames |-> None]

\* ---- the readers ----
\* the documents the panel reads, and what the parser makes of the body of
\* each
DocNames == {"task", "cfg", "fpf", "presets"}
doc_load(doc, body) ==
    CASE doc = "task" -> task_load(body)
      [] doc = "cfg" -> cfg_load(body)
      [] doc = "fpf" -> fpf_load(body)
      [] doc = "presets" -> presets_load(body)

\* the empty dict {} in the shape of each document
doc_empty(doc) ==
    CASE doc = "task" -> TaskEmpty
      [] doc = "cfg" -> CfgEmpty
      [] doc = "fpf" -> FpfEmpty
      [] doc = "presets" -> PresetsEmpty

\* yaml.safe_load(fh): None for a text with no document
yaml_safe_load(text, doc) ==
    CASE text.kind = "garbage" -> Raised(doc_empty(doc))
      [] text.kind = "empty" -> Returned("none", doc_empty(doc))
      [] text.kind = "list" -> Returned("list", doc_empty(doc))
      [] text.kind = "map" -> Returned("dict", doc_load(doc, text.body))

\* json.load(fh): a text with no document is not JSON
json_load(text, doc) ==
    CASE text.kind = "garbage" -> Raised(doc_empty(doc))
      [] text.kind = "empty" -> Raised(doc_empty(doc))
      [] text.kind = "list" -> Returned("list", doc_empty(doc))
      [] text.kind = "map" -> Returned("dict", doc_load(doc, text.body))

\* read_yaml(path), lines 42-51
read_yaml(installed, file, doc) ==
    IF ~installed THEN Raised(doc_empty(doc))
    ELSE IF file = Absent THEN Returned("dict", doc_empty(doc))
    ELSE LET data == yaml_safe_load(file[1], doc)
         IN IF data.raised THEN data
            ELSE IF data.type # "dict" THEN Returned("dict", doc_empty(doc))
            ELSE data

\* read_json(path), lines 62-66
read_json(file, doc) ==
    IF file = Absent THEN Returned("dict", doc_empty(doc))
    ELSE json_load(file[1], doc)

\* read_text(path), lines 75-79: "" for an absent file
read_text(file) == IF file = Absent THEN <<>> ELSE file[1]

\* The files a reader is called on.
ReadValues == {0, 3, 12}
ReadLits == {NoLit} \cup {int_dump(n) : n \in ReadValues}
TaskBodies == [TaskKeys -> ReadLits]
BlankBody == [k \in TaskKeys |-> NoLit]
ReadFiles ==
    {Absent}
      \cup {<<[kind |-> k, body |-> BlankBody]>> : k \in TextKinds \ {"map"}}
      \cup {<<[kind |-> "map", body |-> b]>> : b \in TaskBodies}

do_read(r) ==
    /\ rd_pc = "input"
    /\ rd_pc' = IF r.raised THEN "raised" ELSE "returned"
    /\ rd_result' = [type |-> r.type, map |-> r.map]
    /\ UNCHANGED <<rd_fmt, rd_file>>
    /\ UNCHANGED <<fileVars, runVars, guiVars, patchVars, cfgVars, presetVars, laterVars>>

do_read_yaml ==
    /\ rd_fmt = "yaml"
    /\ do_read(read_yaml(yaml_installed, rd_file, "task"))

do_read_json ==
    /\ rd_fmt = "json"
    /\ do_read(read_json(rd_file, "task"))

IdleRead ==
    /\ rd_fmt = "yaml"
    /\ rd_file = Absent
    /\ rd_pc = "idle"
    /\ rd_result = [type |-> "none", map |-> TaskEmpty]

\* ---- the call ----
\* The state a call works on: the files and their backups, the artifact the
\* RuntimeError names ("none" while no block has raised), the blocks
\* entered, and the warnings printed.
NoFault == [at |-> "none", what |-> "none"]
Faults ==
    {NoFault} \cup {[at |-> a, what |-> w] : a \in Artifacts, w \in {"copy", "open"}}

Fail_restoring_backups(S, a) ==
    [S EXCEPT !.error = a,
              !.file = [x \in Artifacts |->
                           IF S.bak[x] # Absent THEN S.bak[x] ELSE S.file[x]]]

Fail(S, a) == [S EXCEPT !.error = a]
Enter(S, a) == [S EXCEPT !.tried = Append(@, a)]

\* write_yaml / write_json / write_text on artifact a: backup_once, then
\* open(path, "w") and dump.  fault names the step the file system refuses.
write_artifact_existing_only(S, a, text, fault) ==
    LET copy_ok == ~(fault.at = a /\ fault.what = "copy")
        open_ok == ~(fault.at = a /\ fault.what = "open") /\ S.file[a] # Absent
        backed == [S EXCEPT !.bak[a] = backup_once(S.file[a], S.bak[a], copy_ok)]
    IN IF open_ok THEN [backed EXCEPT !.file[a] = <<text>>]
       ELSE Fail(backed, a)

write_artifact(S, a, text, fault) ==
    LET copy_ok == ~(fault.at = a /\ fault.what = "copy")
        open_ok == ~(fault.at = a /\ fault.what = "open")
        backed == [S EXCEPT !.bak[a] = backup_once(S.file[a], S.bak[a], copy_ok)]
    IN IF open_ok THEN [backed EXCEPT !.file[a] = <<text>>]
       ELSE Fail(backed, a)

\* the text written for what a reader returned: a parsed non-mapping is
\* dumped as it was read
text_of(d, body) ==
    [kind |-> IF d.type = "dict" THEN "map" ELSE d.type, body |-> body]

\* vals.get("iterations_default", default), lines 529 and 544
vals_get_iterations_default(vals, default) ==
    IF has_key(vals, "iterations_default") THEN vals.iterations_default ELSE default

\* `x or 1` for a stored count x
or_1(x) == IF x = None \/ x = <<0>> THEN 1 ELSE x[1]

\* the count written for report type rpt, lines 540-544
iteration_count_keep_stored(vals, it, rpt) ==
    IF vals.enable[rpt] = FALSE THEN 0
    ELSE IF it[rpt] # None /\ it[rpt] # <<0>> THEN it[rpt][1]
    ELSE vals_get_iterations_default(vals, 1)

iteration_count(vals, it, rpt) ==
    IF vals.enable[rpt] = FALSE THEN 0
    ELSE vals_get_iterations_default(vals, or_1(it[rpt]))

\* process_markdown/config.yaml, lines 516-591
write_config_yaml_managed_only(S0, vals, fault, installed) ==
    LET S == Enter(S0, "config.yaml")
        r == read_yaml(installed, S.file["config.yaml"], "cfg")
        y == r.map
        it == IF y.iterations.shape = "map" THEN y.iterations.count ELSE NoCounts
        y2 == [iterations_default |->
                   <<vals_get_iterations_default(vals, or_1(y.iterations_default))>>,
               iterations |->
                   [shape |-> "map",
                    count |-> [t \in ReportTypes |-> <<iteration_count(vals, it, t)>>]],
               paths |-> [k \in PathKeys |-> <<vals.paths[k]>>],
               rest |-> None]
    IN IF r.raised THEN Fail(S, "config.yaml")
       ELSE write_artifact(S, "config.yaml",
                           [kind |-> "map", body |-> cfg_dump(y2)], fault)

write_config_yaml(S0, vals, fault, installed) ==
    LET S == Enter(S0, "config.yaml")
        r == read_yaml(installed, S.file["config.yaml"], "cfg")
        y == r.map
        it == IF y.iterations.shape = "map" THEN y.iterations.count ELSE NoCounts
        y2 == [iterations_default |->
                   <<vals_get_iterations_default(vals, or_1(y.iterations_default))>>,
               iterations |->
                   [shape |-> "map",
                    count |-> [t \in ReportTypes |-> <<iteration_count(vals, it, t)>>]],
               paths |-> [k \in PathKeys |-> <<vals.paths[k]>>],
               rest |-> y.rest]
    IN IF r.raised THEN Fail(S, "config.yaml")
       ELSE write_artifact(S, "config.yaml",
                           [kind |-> "map", body |-> cfg_dump(y2)], fault)

\* the value of one of the two sliders of default_config.yaml, lines 601-605
\* and 613-617: the top-level key when vals has it, else the one under "fpf",
\* with `or 0`
fpf_value(vals, dotted, nested) ==
    IF has_key(vals, dotted) THEN vals.dotted[dotted] ELSE nested

\* FilePromptForge/default_config.yaml, lines 593-639
write_fpf_yaml(S0, vals, fault, installed) ==
    LET S == Enter(S0, "default_config.yaml")
        r == read_yaml(installed, S.file["default_config.yaml"], "fpf")
        fy == r.map
        grounding == IF fy.grounding.shape = "map" THEN fy.grounding
                     ELSE [shape |-> "map", max_results |-> None]
        gmr == fpf_value(vals, "grounding.max_results", vals.fpf.grounding_max_results)
        google == IF fy.google.shape = "map" THEN fy.google
                  ELSE [shape |-> "map", max_tokens |-> None]
        gmt == fpf_value(vals, "google.max_tokens", vals.fpf.google_max_tokens)
        fy2 == [grounding |-> IF gmr # 0 THEN [grounding EXCEPT !.max_results = <<gmr>>]
                              ELSE grounding,
                google |-> IF gmt # 0 THEN [google EXCEPT !.max_tokens = <<gmt>>]
                           ELSE google,
                rest |-> fy.rest]
    IN IF r.raised THEN Fail(S, "default_config.yaml")
       ELSE write_artifact(S, "default_config.yaml",
                           [kind |-> "map", body |-> fpf_dump(fy2)], fault)

\* keys_to_update, lines 646-659
keys_to_update == <<"K", "J">>

\* the loop of lines 663-685 over the keys ks, from the state p of its locals
RECURSIVE patch_keys_stop_at_missing(_, _, _)
patch_keys_stop_at_missing(p, ks, vals) ==
    IF ks = <<>> THEN p
    ELSE LET k == Head(ks)
             r == replace_number_in_default_py(p.t, k, vals.py[k])
         IN IF ~has_key(vals, k) THEN patch_keys_stop_at_missing(p, Tail(ks), vals)
            ELSE IF r[2]
              THEN patch_keys_stop_at_missing(
                       [p EXCEPT !.t = r[1], !.replaced_any = TRUE,
                                 !.updated_keys = Append(@, k)], Tail(ks), vals)
              ELSE [p EXCEPT !.missing = Append(@, k)]

RECURSIVE patch_keys(_, _, _)
patch_keys(p, ks, vals) ==
    IF ks = <<>> THEN p
    ELSE LET k == Head(ks)
             r == replace_number_in_default_py(p.t, k, vals.py[k])
         IN IF ~has_key(vals, k) THEN patch_keys(p, Tail(ks), vals)
            ELSE IF r[2]
              THEN patch_keys([p EXCEPT !.t = r[1], !.replaced_any = TRUE,
                                        !.updated_keys = Append(@, k)],
                              Tail(ks), vals)
              ELSE patch_keys([p EXCEPT !.missing = Append(@, k)], Tail(ks), vals)

\* gpt-researcher/gpt_researcher/config/variables/default.py, lines 641-699
write_default_py(S0, vals, fault) ==
    LET S == Enter(S0, "default.py")
        t == read_text(S.file["default.py"])
        after_loop(p) ==
            LET written == IF p.replaced_any
                             THEN write_artifact(S, "default.py", p.t, fault)
                             ELSE S
            IN IF written.error # "none" THEN written
               ELSE IF p.missing # <<>>
                 THEN [written EXCEPT !.warn = Append(@, p.missing)]
               ELSE written
    IN IF t = <<>> THEN Fail(S, "default.py")
       ELSE CHOOSE s \in
                {after_loop(p) :
                    p \in {patch_keys([t |-> t, replaced_any |-> FALSE,
                                       missing |-> <<>>, updated_keys |-> <<>>],
                                      keys_to_update, vals)}} : TRUE

\* gpt-researcher/multi_agents/task.json, lines 701-717.  The value is taken
\* from the top-level key "ma.max_sections" of vals.
write_task_json(S0, vals, fault) ==
    LET S == Enter(S0, "task.json")
        r == read_json(S.file["task.json"], "task")
        j == r.map
        j2 == IF has_key(vals, "ma.max_sections")
                THEN [j EXCEPT !.max_sections = <<vals.dotted["ma.max_sections"]>>]
                ELSE j
    IN IF r.raised THEN Fail(S, "task.json")
       ELSE write_artifact(S, "task.json", text_of(r, task_dump(j2)), fault)

\* a block that raised ends the call: the RuntimeError of lines 591, 639,
\* 699 and 717 leaves write_configs
goes_on_after_error(S) == TRUE

goes_on(S) == S.error = "none"

\* write_configs(vals), lines 512-717
write_configs_on(S0, vals, fault, installed) ==
    CHOOSE s \in
        {IF goes_on(s3) THEN write_task_json(s3, vals, fault) ELSE s3 :
            s3 \in {IF goes_on(s2) THEN write_default_py(s2, vals, fault) ELSE s2 :
                s2 \in {IF goes_on(s1)
                          THEN write_fpf_yaml(s1, vals, fault, installed)
                          ELSE s1 :
                    s1 \in {write_config_yaml(S0, vals, fault, installed)}}}} :
        TRUE

\* ---- the widgets and the files a call starts from ----
SliderVals == {0, 3}
EnableSets == {ReportTypes, {}, {"fpf", "dr"}, {"gptr", "ma"}}

Ui(it, gmr, gmt, ms, on, path, extra) ==
    [iterations_default |-> it,
     paths |-> [k \in PathKeys |-> path],
     grounding_max_results |-> gmr,
     google_max_tokens |-> gmt,
     py |-> [k \in Keys |-> IF k = "J" THEN 75 ELSE 5],
     max_sections |-> ms,
     enable |-> [k \in EnableKeys |-> IF k \in ReportTypes THEN k \in on ELSE extra]]

UiDefault == Ui(3, 3, 3, 3, ReportTypes, "p1", TRUE)

WriteUis ==
    {Ui(it, gmr, gmt, ms, on, "p1", TRUE) :
        it \in SliderVals, gmr \in SliderVals, gmt \in SliderVals,
        ms \in SliderVals, on \in EnableSets}

Blank(kind, body) == <<[kind |-> kind, body |-> body]>>

CfgStored ==
    [iterations_default |-> <<7>>,
     iterations |-> [shape |-> "map",
                     count |-> [t \in ReportTypes |->
                                   CASE t = "gptr" -> <<0>>
                                     [] t = "dr" -> None
                                     [] OTHER -> <<7>>]],
     paths |-> [k \in PathKeys |-> <<"p0">>],
     rest |-> <<1>>]

CfgOdd == [CfgEmpty EXCEPT !.iterations.shape = "other"]

CfgFiles ==
    {Absent, Blank("garbage", cfg_dump(CfgEmpty)),
     Blank("map", cfg_dump(CfgStored)), Blank("map", cfg_dump(CfgOdd))}

FpfStored ==
    [grounding |-> [shape |-> "map", max_results |-> <<5>>],
     google |-> [shape |-> "other", max_tokens |-> None],
     rest |-> <<1>>]

FpfFiles ==
    {Absent, Blank("garbage", fpf_dump(FpfEmpty)), Blank("list", fpf_dump(FpfEmpty)),
     Blank("map", fpf_dump(FpfStored))}

PyFiles ==
    {Absent, <<<<>>>>,
     <<Flatten(<<Header, SiteK1, SiteJ, Close>>)>>,
     <<Flatten(<<Header, SiteK2, Close>>)>>,
     <<Flatten(<<Header, NoSiteK, SiteJ, Close>>)>>,
     <<Flatten(<<Header, NoSiteK, Close>>)>>}

TaskStored == [k \in TaskKeys |-> IF k = "max_sections" THEN <<9>> ELSE <<1>>]

TaskFiles ==
    {Absent, Blank("garbage", task_dump(TaskEmpty)), Blank("list", task_dump(TaskEmpty)),
     Blank("map", task_dump(TaskStored))}

NoFiles == [a \in Artifacts |-> Absent]

FilesOf(a) ==
    CASE a = "config.yaml" -> CfgFiles
      [] a = "default_config.yaml" -> FpfFiles
      [] a = "default.py" -> PyFiles
      [] a = "task.json" -> TaskFiles

StoredFiles ==
    [a \in Artifacts |->
        CASE a = "config.yaml" -> Blank("map", cfg_dump(CfgStored))
          [] a = "default_config.yaml" -> Blank("map", fpf_dump(FpfStored))
          [] a = "default.py" -> <<Flatten(<<Header, SiteK1, SiteJ, Close>>)>>
          [] a = "task.json" -> Blank("map", task_dump(TaskStored))]

\* each file in each of its forms, the other three all stored or all absent
WriteFiles ==
    UNION {{[base EXCEPT ![a] = x] : x \in FilesOf(a)} :
              a \in Artifacts, base \in {StoredFiles, NoFiles}}

\* on_write_clicked / on_run_clicked up to the end of write_configs, lines
\* 719-725 and 727-736: write_configs(gather_values())
do_write_configs ==
    /\ w_pc = "idle"
    /\ \E fault \in Faults, vals \in {gather_values_of(w_ui)} :
         \E S \in {write_configs_on([file |-> w_file, bak |-> w_bak, error |-> "none",
                                     tried |-> <<>>, warn |-> <<>>],
                                    vals, fault, yaml_installed)} :
            /\ w_file' = S.file
            /\ w_bak' = S.bak
            /\ w_error' = S.error
            /\ w_tried' = S.tried
            /\ w_warn' = S.warn
            /\ w_vals' = vals
            /\ w_fault' = fault
            /\ w_pc' = IF S.error = "none" THEN "returned" ELSE "raised"
    /\ w_before' = w_file
    /\ UNCHANGED w_ui
    /\ UNCHANGED <<fileVars, runVars, guiVars, patchVars, readVars, presetVars, laterVars>>

IdleCfg ==
    /\ w_ui = UiDefault
    /\ w_file = NoFiles
    /\ w_bak = NoFiles
    /\ w_before = NoFiles
    /\ w_pc = "off"
    /\ w_vals = gather_values_of(UiDefault)
    /\ w_fault = NoFault
    /\ w_error = "none"
    /\ w_tried = <<>>
    /\ w_warn = <<>>

-----------------------------------------------------------------------------
(***************************************************************************)
(* Presets, src/functions.py lines 1118-1214: the handlers that save the   *)
(* dict of gather_values under a name and apply a saved dict to the        *)
(* widgets.                                                                *)
(***************************************************************************)
\* _apply_preset(data), lines 1158-1214: the paths, the group boxes of the
\* four report types and the iterations slider.  (The dict holds no
\* "providers" key: gather_values collects none.)
apply_preset_without_sliders(ui, data) ==
    [ui EXCEPT !.paths = data.paths,
               !.enable = [k \in EnableKeys |->
                              IF k \in ReportTypes THEN data.enable[k] ELSE @[k]]]

apply_preset(ui, data) ==
    [ui EXCEPT !.paths = data.paths,
               !.enable = [k \in EnableKeys |->
                              IF k \in ReportTypes THEN data.enable[k] ELSE @[k]],
               !.iterations_default = data.iterations_default]

\* The widgets the preset handlers are exercised on.
PresetUis ==
    {Ui(it, 3, 3, ms, on, path, extra) :
        it \in {1, 3}, ms \in SliderVals, on \in {ReportTypes, {"gptr", "ma"}},
        path \in {"p1", "p2"}, extra \in BOOLEAN}

\* the user changes widgets
preset_ui_change ==
    /\ \E ui \in PresetUis \ {u_ui} : u_ui' = ui
    /\ u_pc' = "edit"
    /\ u_before' = u_ui'
    /\ UNCHANGED <<u_presets, u_presets_bak, u_item>>
    /\ UNCHANGED <<fileVars, runVars, guiVars, patchVars, readVars, cfgVars, laterVars>>

\* on_save_preset(), lines 1118-1135, with the name the dialog returned.  A
\* presets.yaml that cannot be read counts as empty (lines 1126-1129).
on_save_preset ==
    /\ \E name \in PresetNames, copy_ok \in BOOLEAN :
         LET r == read_yaml(yaml_installed, u_presets, "presets")
             presets == IF r.raised THEN PresetsEmpty ELSE r.map
             saved == [presets EXCEPT ![name] = <<gather_values_of(u_ui)>>]
         IN /\ yaml_installed
            /\ u_presets_bak' = backup_once(u_presets, u_presets_bak, copy_ok)
            /\ u_presets' = <<[kind |-> "map", body |-> presets_dump(saved)]>>
    /\ u_pc' = "edit"
    /\ u_before' = u_ui
    /\ UNCHANGED <<u_ui, u_item>>
    /\ UNCHANGED <<fileVars, runVars, guiVars, patchVars, readVars, cfgVars, laterVars>>

\* on_load_preset(), lines 1137-1156, with the item the dialog returned
on_load_preset ==
    /\ u_presets # Absent
    /\ LET r == read_yaml(yaml_installed, u_presets, "presets")
       IN /\ ~r.raised
          /\ \E item \in {n \in PresetNames : r.map[n] # None} :
               /\ u_ui' = apply_preset(u_ui, r.map[item][1])
               /\ u_item' = item
    /\ u_pc' = "loaded"
    /\ u_before' = u_ui
    /\ UNCHANGED <<u_presets, u_presets_bak>>
    /\ UNCHANGED <<fileVars, runVars, guiVars, patchVars, readVars, cfgVars, laterVars>>

IdlePreset ==
    /\ u_ui = UiDefault
    /\ u_presets = Absent
    /\ u_presets_bak = Absent
    /\ u_pc = "off"
    /\ u_item = "none"
    /\ u_before = u_ui

-----------------------------------------------------------------------------
(***************************************************************************)
(* MainWindow: the sliders, load_current_values and the Master Quality     *)
(* slider, src/functions.py lines 363-430 and 753-819.                     *)
(*                                                                         *)
(* Of the sixteen sliders _apply_master_quality sets, the model keeps the  *)
(* six that w_ui holds.  The range of a slider is given by                 *)
(* config_sliders.ui; a QSlider keeps its value inside its range.  The     *)
(* percent of the Master Quality slider is the fraction num / den; the     *)
(* widths of that slider are powers of two, for which the float the code   *)
(* computes is this fraction exactly.                                      *)
(***************************************************************************)
MasterSlider == "sliderIterations"

\* the list `sliders` of lines 780-797
controlled_sliders ==
    <<"sliderIterations_2", "sliderGroundingMaxResults", "sliderGoogleMaxTokens",
      "sliderTotalWords", "sliderTemperature", "sliderMaxSections">>

SliderNames == {controlled_sliders[i] : i \in 1..Len(controlled_sliders)}

\* slider.value()
slider_value(ui, s) ==
    CASE s = "sliderIterations_2" -> ui.iterations_default
      [] s = "sliderGroundingMaxResults" -> ui.grounding_max_results
      [] s = "sliderGoogleMaxTokens" -> ui.google_max_tokens
      [] s = "sliderTotalWords" -> ui.py["K"]
      [] s = "sliderTemperature" -> ui.py["J"]
      [] s = "sliderMaxSections" -> ui.max_sections

\* slider.setValue(v): QSlider bounds v to the slider's range
setValue(ui, range, s, v) ==
    LET b == py_max(range[s].min, py_min(range[s].max, v))
    IN CASE s = "sliderIterations_2" -> [ui EXCEPT !.iterations_default = b]
         [] s = "sliderGroundingMaxResults" -> [ui EXCEPT !.grounding_max_results = b]
         [] s = "sliderGoogleMaxTokens" -> [ui EXCEPT !.google_max_tokens = b]
         [] s = "sliderTotalWords" -> [ui EXCEPT !.py["K"] = b]
         [] s = "sliderTemperature" -> [ui EXCEPT !.py["J"] = b]
         [] s = "sliderMaxSections" -> [ui EXCEPT !.max_sections = b]

\* ---- load_current_values, lines 363-430 ----
\* `x or d` for a stored integer x
or_default(x, d) == IF x = None \/ x = <<0>> THEN d ELSE x[1]

\* the block of config.yaml, lines 368-374
load_config_yaml(ui, files, range, installed) ==
    LET y == read_yaml(installed, files["config.yaml"], "cfg")
        iterations_default == or_default(y.map.iterations_default, 1)
    IN IF y.raised THEN ui
       ELSE setValue(ui, range, "sliderIterations_2",
                     clamp_int(iterations_default,
                               range["sliderIterations_2"].min,
                               range["sliderIterations_2"].max))

\* the block of default_config.yaml, lines 377-386.  A section of shape
\* "other" is a non-empty value that is no mapping: its .get raises, which
\* ends the block.
load_fpf_yaml(ui, files, range, installed) ==
    LET fy == read_yaml(installed, files["default_config.yaml"], "fpf")
        gmr == or_default(fy.map.grounding.max_results, 5)
        gmt == or_default(fy.map.google.max_tokens, 1500)
        ui1 == setValue(ui, range, "sliderGroundingMaxResults",
                        clamp_int(gmr, range["sliderGroundingMaxResults"].min,
                                  range["sliderGroundingMaxResults"].max))
        ui2 == setValue(ui1, range, "sliderGoogleMaxTokens",
                        clamp_int(gmt, range["sliderGoogleMaxTokens"].min,
                                  range["sliderGoogleMaxTokens"].max))
    IN IF fy.raised \/ fy.map.grounding.shape = "other" THEN ui
       ELSE IF fy.map.google.shape = "other" THEN ui1
       ELSE ui2

\* set_from_py(slider, key, scale_temp), lines 390-401; val is in hundredths
set_from_py(ui, range, t, s, key, scale_temp) ==
    LET set(val) ==
            LET v == IF scale_temp THEN round_half_even(100 * val[1], 100)
                     ELSE round_half_even(val[1], 100)
            IN IF val = <<>> THEN ui
               ELSE setValue(ui, range, s,
                             clamp_int(v, range[s].min, range[s].max))
    IN CHOOSE u \in {set(val) : val \in {extract_number_from_default_py(t, key)}} :
          TRUE

\* the block of default.py, lines 389-414
load_default_py(ui, files, range) ==
    CHOOSE u \in
        {set_from_py(u1, range, t, "sliderTotalWords", "K", FALSE) :
            t \in {read_text(files["default.py"])},
            u1 \in {set_from_py(ui, range, read_text(files["default.py"]),
                                "sliderTemperature", "J", TRUE)}} :
        TRUE

\* the block of task.json, lines 419-425: a parsed list has no .get
load_task_json(ui, files, range) ==
    LET j == read_json(files["task.json"], "task")
        ms == IF j.map.max_sections = None THEN 1 ELSE j.map.max_sections[1]
    IN IF j.raised \/ j.type # "dict" THEN ui
       ELSE setValue(ui, range, "sliderMaxSections",
                     clamp_int(ms, range["sliderMaxSections"].min,
                               range["sliderMaxSections"].max))

load_current_values(ui, files, range, installed) ==
    CHOOSE u \in
        {load_task_json(u3, files, range) :
            u3 \in {load_default_py(u2, files, range) :
                u2 \in {load_fpf_yaml(u1, files, range, installed) :
                    u1 \in {load_config_yaml(ui, files, range, installed)}}}} :
        TRUE

\* ---- the Master Quality slider, lines 753-819 ----
\* percent of on_master_quality_changed, lines 763-771
master_percent(master, value) ==
    LET n == value - master.min
        d == master.max - master.min
    IN IF master.max <= master.min THEN [num |-> 0, den |-> 1]
       ELSE IF n < 0 THEN [num |-> 0, den |-> 1]
       ELSE IF n > d THEN [num |-> 1, den |-> 1]
       ELSE [num |-> n, den |-> d]

\* _scale_slider(slider, percent), lines 803-819
scale_slider_to_first_range(ui, range, s, percent) ==
    LET smin == range[controlled_sliders[1]].min
        smax == range[controlled_sliders[1]].max
        target == smin + round_half_even(percent.num * (smax - smin), percent.den)
    IN IF smax <= smin THEN ui ELSE setValue(ui, range, s, target)

scale_slider(ui, range, s, percent) ==
    LET smin == range[s].min
        smax == range[s].max
        target == smin + round_half_even(percent.num * (smax - smin), percent.den)
    IN IF smax <= smin THEN ui ELSE setValue(ui, range, s, target)

\* the loop of lines 798-799 over the sliders ss
RECURSIVE scale_sliders(_, _, _, _)
scale_sliders(ui, range, ss, percent) ==
    IF ss = <<>> THEN ui
    ELSE scale_sliders(scale_slider(ui, range, Head(ss), percent), range,
                       Tail(ss), percent)

\* _apply_master_quality(percent), lines 776-801
apply_master_quality(ui, range, percent) ==
    scale_sliders(ui, range, controlled_sliders, percent)

\* slider.blockSignals(True) around setValue, lines 813-815
signals_blocked == TRUE

\* the sliders whose valueChanged is connected to on_master_quality_changed,
\* line 256
master_quality_senders == {MasterSlider}

\* the calls of on_master_quality_changed that the values set by one call
\* raise in turn
retriggered(before, after) ==
    {s \in SliderNames \cap master_quality_senders :
        ~signals_blocked /\ slider_value(before, s) # slider_value(after, s)}

\* on_master_quality_changed(value), lines 753-774, on the widgets and the
\* files S
master_quality_changed_writing(S, range, master, value, installed) ==
    LET ui == apply_master_quality(S.ui, range, master_percent(master, value))
        W == write_configs_on([file |-> S.file, bak |-> S.bak, error |-> "none",
                               tried |-> <<>>, warn |-> <<>>],
                              gather_values_of(ui), NoFault, installed)
    IN [ui |-> ui, file |-> W.file, bak |-> W.bak]

master_quality_changed(S, range, master, value, installed) ==
    [S EXCEPT !.ui = apply_master_quality(S.ui, range,
                                          master_percent(master, value))]

\* the user moves the Master Quality slider to value: valueChanged calls
\* on_master_quality_changed
on_master_quality_changed ==
    /\ q_pc # "off"
    /\ w_pc # "off"
    /\ \E value \in (q_master.min..q_master.max) \ {q_master.value} :
         \E S \in {master_quality_changed([ui |-> w_ui, file |-> w_file,
                                           bak |-> w_bak],
                                          q_range, q_master, value,
                                          yaml_installed)} :
            /\ q_master' = [q_master EXCEPT !.value = value]
            /\ w_ui' = S.ui
            /\ w_file' = S.file
            /\ w_bak' = S.bak
            /\ q_calls' = 1 + Cardinality(retriggered(w_ui, S.ui))
    /\ q_before' = w_ui
    /\ q_pc' = "master"
    /\ UNCHANGED <<q_range, w_before, w_pc, w_vals, w_fault, w_error, w_tried, w_warn>>
    /\ UNCHANGED <<fileVars, runVars, guiVars, patchVars, readVars, presetVars,
                   fnVars, tripVars>>

\* MainWindow.__init__, line 353: the initial load
do_load_current_values ==
    /\ q_pc = "off"
    /\ w_pc = "off"
    /\ \E ui \in {load_current_values(w_ui, w_file, q_range, yaml_installed)} :
          w_ui' = ui
    /\ q_before' = w_ui
    /\ q_pc' = "load"
    /\ w_pc' = "idle"
    /\ UNCHANGED <<q_range, q_master, q_calls>>
    /\ UNCHANGED <<w_file, w_bak, w_before, w_vals, w_fault, w_error, w_tried, w_warn>>
    /\ UNCHANGED <<fileVars, runVars, guiVars, patchVars, readVars, presetVars,
                   fnVars, tripVars>>

\* ---- the ranges and the widgets the handlers start from ----
Range(lo, hi) == [min |-> lo, max |-> hi]
RangeChoices == {Range(0, 3), Range(1, 6), Range(2, 2)}
MixedRanges ==
    [s \in SliderNames |->
        CASE s = "sliderIterations_2" -> Range(1, 6)
          [] s = "sliderGroundingMaxResults" -> Range(0, 3)
          [] s = "sliderGoogleMaxTokens" -> Range(2, 2)
          [] s = "sliderTemperature" -> Range(0, 100)
          [] s = "sliderTotalWords" -> Range(0, 3)
          [] s = "sliderMaxSections" -> Range(1, 10)]
SliderRanges == {[s \in SliderNames |-> r] : r \in RangeChoices} \cup {MixedRanges}

MasterRanges == {Range(0, 4), Range(1, 3), Range(2, 2)}
Masters ==
    UNION {{[min |-> r.min, max |-> r.max, value |-> v] : v \in r.min..r.max} :
              r \in MasterRanges}

\* the widgets as config_sliders.ui sets them: every slider at one end of
\* its range
UiAt(range, top, on, path) ==
    [iterations_default |-> IF top THEN range["sliderIterations_2"].max
                            ELSE range["sliderIterations_2"].min,
     paths |-> [k \in PathKeys |-> path],
     grounding_max_results |-> IF top THEN range["sliderGroundingMaxResults"].max
                               ELSE range["sliderGroundingMaxResults"].min,
     google_max_tokens |-> IF top THEN range["sliderGoogleMaxTokens"].max
                           ELSE range["sliderGoogleMaxTokens"].min,
     py |-> [k \in Keys |-> IF k = "J"
                              THEN (IF top THEN range["sliderTemperature"].max
                                    ELSE range["sliderTemperature"].min)
                              ELSE (IF top THEN range["sliderTotalWords"].max
                                    ELSE range["sliderTotalWords"].min)],
     max_sections |-> IF top THEN range["sliderMaxSections"].max
                      ELSE range["sliderMaxSections"].min,
     enable |-> [k \in EnableKeys |-> IF k \in ReportTypes THEN k \in on ELSE TRUE]]

IdleQual ==
    /\ q_range = MixedRanges
    /\ q_master = [min |-> 0, max |-> 4, value |-> 0]
    /\ q_pc = "off"
    /\ q_calls = 0
    /\ q_before = UiDefault

IdleLater ==
    /\ IdleFn
    /\ IdleTrip
    /\ IdleQual

-----------------------------------------------------------------------------
(***************************************************************************)
(* MainWindow: the handlers that write the configuration and launch        *)
(* processes, src/functions.py lines 719-750, 1006-1020 and 1228-1244.     *)
(*                                                                         *)
(* The state of the widgets is an opaque value 1..MaxUi.  Of a call of     *)
(* write_configs this part keeps whether it returned or raised; of a run   *)
(* of RunnerThread it keeps the steps MainWindow can tell apart (thread_*  *)
(* below), the pipes and the log being left to SpecRunner.                 *)
(***************************************************************************)
MaxUi == 2
MaxProcs == 1

UiStates == 1..MaxUi
NotWritten == <<>>
ProcKinds == {"one_file", "download"}
NoLaunch == <<>>

\* gather_values(), lines 432-510: a snapshot of the widgets
gather_values == <<g_ui>>

\* write_configs(vals), lines 512-717: four try blocks in a row, one per
\* artifact, each re-raising what it catches.  failed names the artifact whose
\* block raises, if one does.  Afterwards the configuration is written for
\* vals when the call returned, and for no one state of the widgets when it
\* raised.
write_configs(vals, failed) ==
    g_written' = IF failed = {} THEN vals ELSE NotWritten

Failures == {{}} \cup {{a} : a \in Artifacts}

\* the user changes a widget
ui_change ==
    /\ \E v \in UiStates \ {g_ui} : g_ui' = v
    /\ UNCHANGED <<g_btn_run, g_written, g_launch, g_orphans, g_procs, g_dialog>>
    /\ UNCHANGED <<fileVars, runVars, patchVars, readVars, cfgVars, presetVars, laterVars>>

\* on_write_clicked, lines 719-725
on_write_clicked ==
    /\ \E failed \in Failures :
         /\ write_configs(gather_values, failed)
         /\ g_dialog' = IF failed = {} THEN "info" ELSE "error"
    /\ UNCHANGED <<g_ui, g_btn_run, g_launch, g_orphans, g_procs>>
    /\ UNCHANGED <<fileVars, runVars, patchVars, readVars, cfgVars, presetVars, laterVars>>

\* RunnerThread(...) is constructed and started, lines 740-742; a child the
\* previous run left running is no longer read by anyone.
start_runner_thread ==
    /\ IF c_state = "running"
         THEN /\ g_orphans < MaxProcs
              /\ g_orphans' = g_orphans + 1
         ELSE UNCHANGED g_orphans
    /\ r_pc' = "start"
    /\ r_outcomes' = <<>>
    /\ c_state' = "none"
    /\ UNCHANGED <<os_environ, r_env, r_log, c_env, c_prog, c_code, c_nlines,
                   p_out, p_err>>

on_run_clicked_stays_disabled ==
    /\ g_btn_run
    /\ \E failed \in Failures :
         /\ write_configs(gather_values, failed)
         /\ IF failed # {}
              THEN /\ g_btn_run' = FALSE
                   /\ g_dialog' = "error"
                   /\ UNCHANGED <<g_launch, g_orphans, runVars>>
              ELSE /\ g_btn_run' = FALSE
                   /\ g_launch' = [by |-> "run", ui |-> gather_values,
                                   written |-> g_written']
                   /\ start_runner_thread
                   /\ UNCHANGED g_dialog
    /\ UNCHANGED <<g_ui, g_procs>>
    /\ UNCHANGED <<fileVars, patchVars, readVars, cfgVars, presetVars, laterVars>>

\* on_run_clicked, lines 727-742.  The handler runs only on a click of the
\* enabled button.
on_run_clicked ==
    /\ g_btn_run
    /\ \E failed \in Failures :
         /\ write_configs(gather_values, failed)
         /\ IF failed # {}
              THEN /\ g_btn_run' = TRUE
                   /\ g_dialog' = "error"
                   /\ UNCHANGED <<g_launch, g_orphans, runVars>>
              ELSE /\ g_btn_run' = FALSE
                   /\ g_launch' = [by |-> "run", ui |-> gather_values,
                                   written |-> g_written']
                   /\ start_runner_thread
                   /\ UNCHANGED g_dialog
    /\ UNCHANGED <<g_ui, g_procs>>
    /\ UNCHANGED <<fileVars, patchVars, readVars, cfgVars, presetVars, laterVars>>

\* RunnerThread.run up to Popen, lines 139-154, seen from MainWindow
thread_popen ==
    /\ r_pc = "start"
    /\ \E spawn_ok \in BOOLEAN :
         IF spawn_ok
           THEN /\ \E code \in ExitCodes : c_code' = code
                /\ c_state' = "running"
                /\ r_pc' = "stdout"
                /\ UNCHANGED r_outcomes
           ELSE /\ emit(FALSE, -1, "Failed to run")
                /\ r_pc' = "done"
                /\ UNCHANGED <<c_state, c_code>>
    /\ UNCHANGED <<os_environ, r_env, r_log, c_env, c_prog, c_nlines, p_out, p_err>>
    /\ UNCHANGED <<fileVars, guiVars, patchVars, readVars, cfgVars, presetVars, laterVars>>

\* the child of the run exits, during the run or after the run has ended
thread_child_exit ==
    /\ c_state = "running"
    /\ c_state' = "exited"
    /\ UNCHANGED <<os_environ, r_pc, r_env, r_log, r_outcomes, c_env, c_prog, c_code,
                   c_nlines, p_out, p_err>>
    /\ UNCHANGED <<fileVars, guiVars, patchVars, readVars, cfgVars, presetVars, laterVars>>

\* a print of lines 159 or 161 raises while the run forwards the child's
\* output: line 167 reports code -1, whatever the child is doing
thread_forward_raises ==
    /\ r_pc = "stdout"
    /\ emit(FALSE, -1, "Failed to run")
    /\ r_pc' = "done"
    /\ UNCHANGED <<os_environ, r_env, r_log, c_state, c_env, c_prog, c_code,
                   c_nlines, p_out, p_err>>
    /\ UNCHANGED <<fileVars, guiVars, patchVars, readVars, cfgVars, presetVars, laterVars>>

\* both pipes are at their end, proc.wait() returns, lines 158-166
thread_finish ==
    /\ r_pc = "stdout"
    /\ c_state = "exited"
    /\ emit(outcome_ok(c_code), c_code, outcome_msg(c_code))
    /\ r_pc' = "done"
    /\ UNCHANGED <<os_environ, r_env, r_log, c_state, c_env, c_prog, c_code,
                   c_nlines, p_out, p_err>>
    /\ UNCHANGED <<fileVars, guiVars, patchVars, readVars, cfgVars, presetVars, laterVars>>

\* _on_generate_finished, lines 744-750: the slot of finished_ok
on_generate_finished ==
    /\ r_pc = "done"
    /\ r_pc' = "idle"
    /\ g_btn_run' = TRUE
    /\ g_dialog' = IF r_outcomes[Len(r_outcomes)].ok THEN "info" ELSE "error"
    /\ UNCHANGED <<os_environ, r_env, r_log, r_outcomes, c_state, c_env, c_prog,
                   c_code, c_nlines, p_out, p_err>>
    /\ UNCHANGED <<g_ui, g_written, g_launch, g_orphans, g_procs>>
    /\ UNCHANGED <<fileVars, patchVars, readVars, cfgVars, presetVars, laterVars>>

\* a child that an earlier run left running exits
orphan_exit ==
    /\ g_orphans > 0
    /\ g_orphans' = g_orphans - 1
    /\ UNCHANGED <<g_ui, g_btn_run, g_written, g_launch, g_procs, g_dialog>>
    /\ UNCHANGED <<fileVars, runVars, patchVars, readVars, cfgVars, presetVars, laterVars>>

\* on_run_one_file, lines 1228-1244: with a file chosen, generate.py is
\* started by subprocess.Popen at once
on_run_one_file ==
    /\ \E spawn_ok \in BOOLEAN :
         IF spawn_ok
           THEN /\ g_procs["one_file"] < MaxProcs
                /\ g_procs' = [g_procs EXCEPT !["one_file"] = @ + 1]
                /\ g_launch' = [by |-> "one_file", ui |-> gather_values,
                                written |-> g_written]
                /\ g_dialog' = "info"
           ELSE /\ g_dialog' = "error"
                /\ UNCHANGED <<g_procs, g_launch>>
    /\ UNCHANGED <<g_ui, g_btn_run, g_written, g_orphans>>
    /\ UNCHANGED <<fileVars, runVars, patchVars, readVars, cfgVars, presetVars, laterVars>>

\* on_download_and_install, lines 1006-1020
on_download_and_install ==
    /\ \E script_exists \in BOOLEAN, spawn_ok \in BOOLEAN :
         IF script_exists /\ spawn_ok
           THEN /\ g_procs["download"] < MaxProcs
                /\ g_procs' = [g_procs EXCEPT !["download"] = @ + 1]
                /\ g_dialog' = "info"
           ELSE /\ g_dialog' = "error"
                /\ UNCHANGED g_procs
    /\ UNCHANGED <<g_ui, g_btn_run, g_written, g_launch, g_orphans>>
    /\ UNCHANGED <<fileVars, runVars, patchVars, readVars, cfgVars, presetVars, laterVars>>

\* a process started by on_run_one_file or on_download_and_install exits
proc_exit ==
    /\ \E k \in ProcKinds :
         /\ g_procs[k] > 0
         /\ g_procs' = [g_procs EXCEPT ![k] = @ - 1]
    /\ UNCHANGED <<g_ui, g_btn_run, g_written, g_launch, g_orphans, g_dialog>>
    /\ UNCHANGED <<fileVars, runVars, patchVars, readVars, cfgVars, presetVars, laterVars>>

\* the external processes this system started that are running
ActiveProcs ==
    (IF c_state = "running" THEN 1 ELSE 0) + g_orphans
        + g_procs["one_file"] + g_procs["download"]

\* the window as constructed, lines 172-355: nothing written, nothing started
IdleGui ==
    /\ g_btn_run = TRUE
    /\ g_written = NotWritten
    /\ g_launch = NoLaunch
    /\ g_orphans = 0
    /\ g_procs = [k \in ProcKinds |-> 0]
    /\ g_dialog = "none"

Init ==
    /\ IdleFiles
    /\ os_environ = Unset
    /\ r_pc = "idle"
    /\ IdleRunner
    /\ g_ui \in UiStates
    /\ IdleGui
    /\ IdlePatch
    /\ IdleRead
    /\ IdleCfg
    /\ IdlePreset
    /\ IdleLater

Next ==
    \/ ui_change
    \/ on_write_clicked
    \/ on_run_clicked
    \/ thread_popen
    \/ thread_child_exit
    \/ thread_forward_raises
    \/ thread_finish
    \/ on_generate_finished
    \/ orphan_exit
    \/ on_run_one_file
    \/ on_download_and_install
    \/ proc_exit

Spec == Init /\ [][Next]_vars

-----------------------------------------------------------------------------
\* RunnerThread.start() has been called, in any caller's environment
InitRunner ==
    /\ IdleFiles
    /\ os_environ \in EnvVals
    /\ r_pc = "start"
    /\ IdleRunner
    /\ g_ui = 1
    /\ IdleGui
    /\ IdlePatch
    /\ IdleRead
    /\ IdleCfg
    /\ IdlePreset
    /\ IdleLater

NextRunner ==
    \/ run_popen
    \/ run_read_stdout
    \/ run_stdout_eof
    \/ run_read_stderr
    \/ run_stderr_eof
    \/ run_wait
    \/ child_write
    \/ child_exit

SpecRunner == InitRunner /\ [][NextRunner]_vars

-----------------------------------------------------------------------------
InitBackup ==
    /\ InitFiles
    /\ os_environ = Unset
    /\ r_pc = "idle"
    /\ IdleRunner
    /\ g_ui = 1
    /\ IdleGui
    /\ IdlePatch
    /\ IdleRead
    /\ IdleCfg
    /\ IdlePreset
    /\ IdleLater


NextBackup == write_yaml \/ write_json \/ write_text

SpecBackup == InitBackup /\ [][NextBackup]_vars

-----------------------------------------------------------------------------
\* one call of the literal patcher on any text, key and value
InitPatch ==
    /\ IdleFiles
    /\ os_environ = Unset
    /\ r_pc = "idle"
    /\ IdleRunner
    /\ g_ui = 1
    /\ IdleGui
    /\ pt_text \in Texts
    /\ pt_key \in Keys
    /\ pt_value \in Values
    /\ pt_pc = "input"
    /\ pt_out = <<>>
    /\ pt_flag = FALSE
    /\ IdleRead
    /\ IdleCfg
    /\ IdlePreset
    /\ IdleLater

NextPatch == do_replace

SpecPatch == InitPatch /\ [][NextPatch]_vars

-----------------------------------------------------------------------------
\* the parts of the earlier specifications, at rest
IdleEarlier ==
    /\ IdleFiles
    /\ os_environ = Unset
    /\ r_pc = "idle"
    /\ IdleRunner
    /\ g_ui = 1
    /\ IdleGui
    /\ IdlePatch

\* one call of read_yaml or read_json on any file, with or without PyYAML
InitRead ==
    /\ f_kind = "yaml"
    /\ yaml_installed \in BOOLEAN
    /\ f_content = Absent
    /\ f_bak = Absent
    /\ f_orig = Absent
    /\ f_nwrites = 0
    /\ f_copy_failed = FALSE
    /\ f_raised = FALSE
    /\ os_environ = Unset
    /\ r_pc = "idle"
    /\ IdleRunner
    /\ g_ui = 1
    /\ IdleGui
    /\ IdlePatch
    /\ rd_fmt \in {"yaml", "json"}
    /\ rd_file \in ReadFiles
    /\ rd_pc = "input"
    /\ rd_result = [type |-> "none", map |-> TaskEmpty]
    /\ IdleCfg
    /\ IdlePreset
    /\ IdleLater

NextRead == do_read_yaml \/ do_read_json

SpecRead == InitRead /\ [][NextRead]_vars

\* one write cycle, from any state of the widgets
InitWrite ==
    /\ IdleEarlier
    /\ IdleRead
    /\ w_ui \in WriteUis
    /\ w_file \in WriteFiles
    /\ w_bak = NoFiles
    /\ w_before = w_file
    /\ w_pc = "idle"
    /\ w_vals = gather_values_of(w_ui)
    /\ w_fault = NoFault
    /\ w_error = "none"
    /\ w_tried = <<>>
    /\ w_warn = <<>>
    /\ IdlePreset
    /\ IdleLater

NextWrite == do_write_configs

SpecWrite == InitWrite /\ [][NextWrite]_vars

\* the preset handlers, from any state of the widgets, with no presets.yaml
InitPreset ==
    /\ IdleEarlier
    /\ IdleRead
    /\ IdleCfg
    /\ u_ui \in PresetUis
    /\ u_presets = Absent
    /\ u_presets_bak = Absent
    /\ u_pc = "edit"
    /\ u_item = "none"
    /\ u_before = u_ui
    /\ IdleLater

NextPreset == preset_ui_change \/ on_save_preset \/ on_load_preset

SpecPreset == InitPreset /\ [][NextPreset]_vars

\* one or two calls in a row of clamp_int or of temp_from_slider
InitFn ==
    /\ IdleEarlier
    /\ IdleRead
    /\ IdleCfg
    /\ IdlePreset
    /\ fn_op \in {"clamp_int", "temp_from_slider"}
    /\ IF fn_op = "clamp_int"
         THEN /\ fn_x \in ClampArgs
              /\ fn_lo \in ClampBounds
              /\ fn_hi \in ClampBounds
         ELSE /\ fn_x \in TempArgs
              /\ fn_lo = 0
              /\ fn_hi = 0
    /\ fn_pc = 0
    /\ fn_out = <<>>
    /\ IdleTrip
    /\ IdleQual

NextFn == do_clamp_int \/ do_temp_from_slider

SpecFn == InitFn /\ [][NextFn]_vars

\* one call of replace_number_in_default_py, and its result read back
InitTrip ==
    /\ IdleFiles
    /\ os_environ = Unset
    /\ r_pc = "idle"
    /\ IdleRunner
    /\ g_ui = 1
    /\ IdleGui
    /\ pt_text \in TripTexts
    /\ pt_key \in Keys
    /\ pt_value \in Values
    /\ pt_pc = "input"
    /\ pt_out = <<>>
    /\ pt_flag = FALSE
    /\ IdleRead
    /\ IdleCfg
    /\ IdlePreset
    /\ IdleLater

NextTrip == do_replace \/ do_extract

SpecTrip == InitTrip /\ [][NextTrip]_vars

\* the window is constructed on any files, then Write to Configs is clicked
InitLoad ==
    /\ IdleEarlier
    /\ IdleRead
    /\ q_range \in SliderRanges
    /\ w_ui \in {UiAt(q_range, top, on, "p1") :
                    top \in BOOLEAN, on \in {ReportTypes, {"fpf", "dr"}}}
    /\ w_file \in WriteFiles
    /\ w_bak = NoFiles
    /\ w_before = w_file
    /\ w_pc = "off"
    /\ w_vals = gather_values_of(w_ui)
    /\ w_fault = NoFault
    /\ w_error = "none"
    /\ w_tried = <<>>
    /\ w_warn = <<>>
    /\ IdlePreset
    /\ IdleFn
    /\ IdleTrip
    /\ q_master = [min |-> 0, max |-> 4, value |-> 0]
    /\ q_pc = "off"
    /\ q_calls = 0
    /\ q_before = w_ui

NextLoad == do_load_current_values \/ do_write_configs

SpecLoad == InitLoad /\ [][NextLoad]_vars

\* the Master Quality slider is moved, before and after Write to Configs
InitQuality ==
    /\ IdleEarlier
    /\ IdleRead
    /\ q_range \in SliderRanges
    /\ w_ui \in {UiAt(q_range, top, ReportTypes, "p1") : top \in BOOLEAN}
    /\ w_file \in {StoredFiles, NoFiles}
    /\ w_bak = NoFiles
    /\ w_before = w_file
    /\ w_pc = "idle"
    /\ w_vals = gather_values_of(w_ui)
    /\ w_fault = NoFault
    /\ w_error = "none"
    /\ w_tried = <<>>
    /\ w_warn = <<>>
    /\ IdlePreset
    /\ IdleFn
    /\ IdleTrip
    /\ q_master \in Masters
    /\ q_pc = "none"
    /\ q_calls = 0
    /\ q_before = w_ui

NextQuality == on_master_quality_changed \/ do_write_configs

SpecQuality == InitQuality /\ [][NextQuality]_vars

\* RunnerThread.run with its child, both scheduled: a step the thread can
\* take is taken, and so is a step the child can take
run_step ==
    \/ run_popen
    \/ run_read_stdout
    \/ run_stdout_eof
    \/ run_read_stderr
    \/ run_stderr_eof
    \/ run_wait

child_step == child_write \/ child_exit

SpecRunnerFair == SpecRunner /\ WF_vars(run_step) /\ WF_vars(child_step)

-----------------------------------------------------------------------------
(***************************************************************************)
(* Properties of the config store adapters (SpecBackup)                    *)
(***************************************************************************)

C2_BackupNeverOverwritten ==
    [][f_bak # Absent => f_bak' = f_bak]_vars

C2_Witness ==
    /\ f_nwrites = MaxWrites
    /\ f_bak # Absent
    /\ f_content # f_bak

(***************************************************************************)
(* Properties of the launch handlers (Spec)                                *)
(***************************************************************************)

\* C3, as claimed: whenever generate.py is launched, by Run or by Run One
\* File, write_configs has returned for the state the widgets are in.
C3_AsClaimed ==
    g_launch # NoLaunch => g_launch.written = g_launch.ui

\* C4, as claimed: at most one external process started by this system is
\* running at a time.
C4_AsClaimed ==
    ActiveProcs <= 1

(***************************************************************************)
(* Properties of the process runner (SpecRunner)                           *)
(***************************************************************************)

\* C5, as claimed: the outcome reports success exactly when the child's
\* exit code is 0, reports a non-zero exit code as it is, and reports
\* (false, -1, message) when no child could be spawned; run always ends with
\* an outcome.
C5_AsClaimed ==
    /\ r_pc = "done" => Len(r_outcomes) = 1
    /\ \A k \in 1..Len(r_outcomes) :
         LET o == r_outcomes[k]
         IN /\ c_state = "none"
                 => o = [ok |-> FALSE, code |-> -1, msg |-> "Failed to run"]
            /\ c_state = "exited"
                 => /\ o.ok <=> (c_code = 0)
                    /\ c_code # 0 => o.code = c_code

\* C6, as claimed: a run emits exactly one outcome, and once the outcome is
\* emitted no child of the run is running.
C6_AsClaimed ==
    /\ r_pc \in {"start", "stdout", "stderr", "wait"} => r_outcomes = <<>>
    /\ r_pc = "done" => Len(r_outcomes) = 1
    /\ r_outcomes # <<>> => c_state # "running"

\* C7, as claimed: while the child is running, a line it has written to one
\* stream is never kept waiting for the other stream.
C7_AsClaimed ==
    ~(c_state = "running" /\ p_err # <<>> /\ r_pc = "stdout" /\ p_out = <<>>)

\* C8, as claimed: the child's PYTHONIOENCODING is utf-8 when the caller's
\* environment does not define it, and the caller's value when it does.
C8_AsClaimed ==
    c_state # "none"
        => c_env = (IF os_environ = Unset THEN "utf-8" ELSE os_environ)

(***************************************************************************)
(* Properties of the literal patcher (SpecPatch)                           *)
(***************************************************************************)
SitePositions(t, key) == {i \in 1..Len(t) : SiteMatch(t, key, i).ok}

Min(S) == CHOOSE x \in S : \A y \in S : x <= y

\* the site at position i lies in the span [from, to)
SiteWithin(t, key, i, from, to) == i >= from /\ SiteMatch(t, key, i).to <= to

\* out is t but for the symbols of t in [from, to)
SameOutside(t, out, from, to) ==
    /\ Len(out) >= Len(t) - (to - from)
    /\ SubSeq(out, 1, from - 1) = SubSeq(t, 1, from - 1)
    /\ SubSeq(out, Len(out) - (Len(t) - to), Len(out)) = SubSeq(t, to, Len(t))

\* C9, as claimed: when the key has a site inside the DEFAULT_CONFIG block
\* and a site outside it, the text outside the block is returned unchanged.
C9_AsClaimed ==
    LET b == config_block(pt_text)
        sites == SitePositions(pt_text, pt_key)
    IN (/\ pt_pc = "replaced"
        /\ b.found
        /\ \E i \in sites : SiteWithin(pt_text, pt_key, i, b.from, b.to)
        /\ \E i \in sites : ~SiteWithin(pt_text, pt_key, i, b.from, b.to))
           => SameOutside(pt_text, pt_out, b.from, b.to)

\* lit is v written as a bare integer when v is whole, with exactly two
\* decimals otherwise
WrittenForm(lit, v) ==
    LET int == IF At(lit, 1) = "-" THEN 2 ELSE 1
        dot == SkipDigits(lit, int)
    IN /\ dot > int
       /\ IF v % 100 = 0
            THEN dot = Len(lit) + 1
            ELSE /\ At(lit, dot) = "."
                 /\ Len(lit) = dot + 2
                 /\ SkipDigits(lit, dot + 1) = Len(lit) + 1
       /\ to_float(lit) = v

C11_AbsentKeyUnchanged ==
    (pt_pc = "replaced" /\ SitePositions(pt_text, pt_key) = {})
        => (pt_out = pt_text /\ pt_flag = FALSE)

\* a text that names the key without a number after it, and holds a site of
\* the other key
C11_Witness ==
    /\ pt_pc = "replaced"
    /\ SitePositions(pt_text, pt_key) = {}
    /\ \E i \in 1..Len(pt_text) : At(pt_text, i) = pt_key
    /\ \E k \in Keys : SitePositions(pt_text, k) # {}
    /\ pt_out = pt_text
    /\ pt_flag = FALSE

(***************************************************************************)
(* Properties of write_configs (SpecWrite)                                 *)
(***************************************************************************)

\* the block of artifact a was entered in the last call and did not raise
Completed(a) ==
    /\ w_pc \in {"returned", "raised"}
    /\ \E i \in 1..Len(w_tried) : w_tried[i] = a
    /\ w_error # a

\* what read_yaml / read_json give for the files as they are now
ReadBackCfg == read_yaml(yaml_installed, w_file["config.yaml"], "cfg")
ReadBackFpf ==
    read_yaml(yaml_installed, w_file["default_config.yaml"], "fpf")
ReadBackTask == read_json(w_file["task.json"], "task")
StoredCfg == read_yaml(yaml_installed, w_before["config.yaml"], "cfg")

C13_AsClaimed ==
    w_pc = "returned" =>
        /\ ReadBackCfg.map.iterations_default = <<w_vals.iterations_default>>
        /\ ReadBackFpf.map.grounding.max_results = <<w_vals.fpf.grounding_max_results>>
        /\ ReadBackFpf.map.google.max_tokens = <<w_vals.fpf.google_max_tokens>>

\* C14: after a write cycle write_configs(gather_values()) that returned,
\* max_sections of task.json is the value of the Max Sections slider.
C14_AsClaimed ==
    w_pc = "returned" => ReadBackTask.map.max_sections = <<w_ui.max_sections>>

\* the order in which write_configs goes through the artifacts
BlockOrder == <<"config.yaml", "default_config.yaml", "default.py", "task.json">>

Tried(a) == \E i \in 1..Len(w_tried) : w_tried[i] = a

\* C15, as claimed: when the write of one artifact fails, the writes of the
\* other artifacts are attempted in the same call all the same.
C15_AsClaimed ==
    w_pc = "raised" => \A a \in Artifacts : Tried(a)

\* C15, amended: write_configs goes through the artifacts in the order
\* config.yaml, default_config.yaml, default.py, task.json, and a failure at
\* one artifact ends the call: the artifacts before it have been attempted,
\* the artifacts after it are not attempted.  A call that returns has
\* attempted all four.
C15_FailureEndsTheCall ==
    /\ w_pc = "returned" => (w_error = "none" /\ w_tried = BlockOrder)
    /\ w_pc = "raised" =>
          \E n \in 1..Len(BlockOrder) :
              /\ w_error = BlockOrder[n]
              /\ w_tried = SubSeq(BlockOrder, 1, n)

\* the call failed at default_config.yaml after it had written config.yaml,
\* and left default.py and task.json alone
C15_Witness ==
    /\ w_pc = "raised"
    /\ w_error = "default_config.yaml"
    /\ w_tried = <<"config.yaml", "default_config.yaml">>
    /\ w_file["config.yaml"] # w_before["config.yaml"]
    /\ w_file["default.py"] = w_before["default.py"]
    /\ w_file["task.json"] = w_before["task.json"]
    /\ w_before["task.json"] # Absent

\* the file system refused nothing at artifact a in the last call
NoFaultAt(a) == w_fault.at # a

\* C16, as claimed: an artifact that is absent when write_configs gets to it
\* is no failure: its block does not raise and the file exists afterwards
\* (unless the file system refuses the write).
C16_AsClaimed ==
    \A a \in Artifacts :
        (Tried(a) /\ w_before[a] = Absent /\ NoFaultAt(a))
            => (w_error # a /\ w_file[a] # Absent)

\* C16, amended: an absent config.yaml, default_config.yaml or task.json is
\* read as an empty mapping and is created by write_configs; an absent
\* default.py makes write_configs fail at default.py, is not created, and
\* task.json is then not attempted.
C16_MissingArtifact ==
    \A a \in Artifacts :
        (Tried(a) /\ w_before[a] = Absent /\ NoFaultAt(a)) =>
            IF a = "default.py"
              THEN /\ w_pc = "raised"
                   /\ w_error = a
                   /\ w_file[a] = Absent
                   /\ ~Tried("task.json")
              ELSE /\ w_error # a
                   /\ w_file[a] # Absent
                   /\ w_file[a][1].kind = "map"

\* none of the four files exists: config.yaml and default_config.yaml are
\* created, the call fails at default.py
C16_Witness ==
    /\ w_before = NoFiles
    /\ w_fault = NoFault
    /\ w_pc = "raised"
    /\ w_error = "default.py"
    /\ w_file["config.yaml"] # Absent
    /\ w_file["default_config.yaml"] # Absent
    /\ w_file["default.py"] = Absent
    /\ w_file["task.json"] = Absent

(***************************************************************************)
(* Properties of the readers (SpecRead)                                    *)
(***************************************************************************)

\* C17: read_yaml and read_json return an empty mapping, and do not raise,
\* when the file is absent, when its text fails to parse, and when the
\* parsed document is not a mapping.
C17_AsClaimed ==
    (/\ rd_pc \in {"returned", "raised"}
     /\ yaml_installed
     /\ \/ rd_file = Absent
        \/ rd_file[1].kind \in {"garbage", "list"})
        => (rd_pc = "returned" /\ rd_result = [type |-> "dict", map |-> TaskEmpty])

(***************************************************************************)
(* Properties of write_configs: default.py and failures (SpecWrite)        *)
(***************************************************************************)

BeforePy == read_text(w_before["default.py"])
AfterPy == read_text(w_file["default.py"])
FoundKeys == {k \in Keys : SitePositions(BeforePy, k) # {}}
MissingKeys == Keys \ FoundKeys

\* the number of the first site of key k in text t
NumberAt(t, k) ==
    LET m == SiteMatch(t, k, Min(SitePositions(t, k)))
    IN SubSeq(t, m.from, m.to - 1)

\* the file system refused to open artifact a for writing in the last call
Refused(a) == w_fault.at = a /\ w_fault.what = "open"

\* task.json can be read: it is absent or holds a JSON document
TaskReadable ==
    \/ w_before["task.json"] = Absent
    \/ w_before["task.json"][1].kind \in {"map", "list"}

\* C18: when a key of keys_to_update has no site in default.py, the pass is
\* not aborted: every key that has a site is patched and the text written,
\* task.json is attempted afterwards, the missing keys are reported together
\* in one warning, and the default.py block raises no error (so that
\* write_configs returns when task.json can be read and written).
C18_MissingKeyDoesNotAbort ==
    (/\ Tried("default.py")
     /\ BeforePy # <<>>
     /\ MissingKeys # {}
     /\ ~Refused("default.py"))
        => /\ w_error # "default.py"
           /\ \A k \in FoundKeys :
                 /\ SitePositions(AfterPy, k) # {}
                 /\ WrittenForm(NumberAt(AfterPy, k), w_vals.py[k])
           /\ FoundKeys = {} => AfterPy = BeforePy
           /\ Tried("task.json")
           /\ w_warn = <<SelectSeq(keys_to_update, LAMBDA k : k \in MissingKeys)>>
           /\ (TaskReadable /\ ~Refused("task.json")) => w_pc = "returned"

\* the first key has no site, the second has one: the second is patched,
\* the first is reported, task.json is created, the call returns
C18_Witness ==
    /\ w_pc = "returned"
    /\ MissingKeys = {keys_to_update[1]}
    /\ WrittenForm(NumberAt(AfterPy, keys_to_update[2]), w_vals.py[keys_to_update[2]])
    /\ AfterPy # BeforePy
    /\ w_warn = <<<<keys_to_update[1]>>>>
    /\ w_before["task.json"] = Absent
    /\ w_file["task.json"] # Absent

\* artifact a cannot be read by its block
Unreadable(a) ==
    CASE a = "default.py" -> BeforePy = <<>>
      [] a = "task.json" -> ~TaskReadable
      [] OTHER -> w_before[a] # Absent /\ w_before[a][1].kind = "garbage"

\* the block of artifact a has to fail: the file cannot be read, or there is
\* something to write and the file system refuses it
MustFail(a) ==
    \/ Unreadable(a)
    \/ Refused(a) /\ (a = "default.py" => FoundKeys # {})

\* artifact a holds what the last call had to write to it
NewContent(a) ==
    CASE a = "config.yaml" ->
             /\ ~ReadBackCfg.raised
             /\ ReadBackCfg.map.iterations_default = <<w_vals.iterations_default>>
             /\ \A k \in PathKeys : ReadBackCfg.map.paths[k] = <<w_vals.paths[k]>>
      [] a = "default_config.yaml" ->
             /\ ~ReadBackFpf.raised
             /\ ReadBackFpf.map.grounding.shape = "map"
             /\ w_vals.fpf.grounding_max_results # 0 =>
                   ReadBackFpf.map.grounding.max_results
                       = <<w_vals.fpf.grounding_max_results>>
      [] a = "default.py" ->
             \A k \in FoundKeys :
                 /\ SitePositions(AfterPy, k) # {}
                 /\ WrittenForm(NumberAt(AfterPy, k), w_vals.py[k])
      [] a = "task.json" -> w_file[a] # Absent

\* C19: when write_configs fails at an artifact, the artifacts written
\* earlier in the call keep their new content, and the one error the caller
\* gets names the artifact that failed: the first one, in the order of the
\* call, that could not be read or written.
C19_NoRollbackOneError ==
    w_pc = "raised" =>
        \E n \in 1..Len(BlockOrder) :
            /\ w_error = BlockOrder[n]
            /\ MustFail(BlockOrder[n])
            /\ \A i \in 1..(n - 1) :
                  /\ ~MustFail(BlockOrder[i])
                  /\ NewContent(BlockOrder[i])

\* the call failed at task.json, after it had changed the other three files
C19_Witness ==
    /\ w_pc = "raised"
    /\ w_error = "task.json"
    /\ \A a \in Artifacts \ {"task.json"} : w_file[a] # w_before[a] /\ NewContent(a)
    /\ w_before["config.yaml"] # Absent
    /\ w_file["task.json"] = w_before["task.json"]

(***************************************************************************)
(* Properties of the presets (SpecPreset)                                  *)
(***************************************************************************)

\* the dict stored in presets.yaml under the name of the preset applied last
Snapshot ==
    read_yaml(yaml_installed, u_presets, "presets").map[u_item][1]

\* C20: after a preset is saved, settings are changed and the preset is
\* loaded, every setting of the saved snapshot (what gather_values returned
\* at save time) has the value it had at save time.
C20_AsClaimed ==
    u_pc = "loaded" => gather_values_of(u_ui) = Snapshot

\* C20, amended: loading a preset restores the three paths, the enable flags
\* of the four report types and iterations_default to their values at save
\* time; every other slider and the evaluation and pairwise flags keep the
\* values they had before the load.
C20_LoadRestoresPart ==
    u_pc = "loaded" =>
        /\ u_ui.paths = Snapshot.paths
        /\ \A t \in ReportTypes : u_ui.enable[t] = Snapshot.enable[t]
        /\ u_ui.iterations_default = Snapshot.iterations_default
        /\ \A k \in EnableKeys \ ReportTypes : u_ui.enable[k] = u_before.enable[k]
        /\ u_ui.grounding_max_results = u_before.grounding_max_results
        /\ u_ui.google_max_tokens = u_before.google_max_tokens
        /\ u_ui.py = u_before.py
        /\ u_ui.max_sections = u_before.max_sections

\* the preset was applied to widgets that differed from it in a path, a
\* report type's flag, the iterations slider, another slider and another flag
C20_Witness ==
    /\ u_pc = "loaded"
    /\ u_before.paths # Snapshot.paths
    /\ u_before.enable["fpf"] # Snapshot.enable["fpf"]
    /\ u_before.iterations_default # Snapshot.iterations_default
    /\ u_before.max_sections # Snapshot.ma.max_sections
    /\ u_before.enable["evaluation"] # Snapshot.enable["evaluation"]
    /\ u_ui.paths = Snapshot.paths
    /\ u_ui.iterations_default = Snapshot.iterations_default
    /\ u_ui.max_sections # Snapshot.ma.max_sections


(***************************************************************************)
(* Properties of the Master Quality slider (SpecQuality)                   *)
(***************************************************************************)
\* the percent of the last move of the Master Quality slider: PercentNum
\* over PercentDen
PercentNum == q_master.value - q_master.min
PercentDen == q_master.max - q_master.min

\* k is round(PercentNum / PercentDen * w): the integer nearest to the
\* product, the even one of the two when the product is halfway
IsRoundOfProduct(k, w) ==
    LET twice == 2 * Abs(k * PercentDen - PercentNum * w)
    IN /\ twice <= PercentDen
       /\ twice = PercentDen => k % 2 = 0

\* C21: after _apply_master_quality(p), every controlled slider with
\* min < max holds min + round(p * (max - min)) for its own min and max: its
\* minimum at p = 0, its maximum at p = 1, always a value inside [min, max];
\* a slider with min = max keeps its value.
C21_MasterQualityScales ==
    q_pc = "master" =>
        \A s \in SliderNames :
            LET lo == q_range[s].min
                hi == q_range[s].max
                v == slider_value(w_ui, s)
            IN IF lo < hi
                 THEN /\ lo <= v /\ v <= hi
                      /\ IsRoundOfProduct(v - lo, hi - lo)
                      /\ PercentNum = 0 => v = lo
                      /\ PercentNum = PercentDen => v = hi
                 ELSE v = slider_value(q_before, s)

\* the slider was moved to the middle: sliders of different ranges got
\* different values, with the ties 2.5 and 1.5 rounded to 2
C21_Witness ==
    /\ q_pc = "master"
    /\ q_range = MixedRanges
    /\ 2 * PercentNum = PercentDen
    /\ w_ui # q_before
    /\ w_ui.iterations_default = 3
    /\ w_ui.grounding_max_results = 2
    /\ w_ui.google_max_tokens = 2
    /\ w_ui.py["J"] = 50
    /\ w_ui.max_sections = 5

\* C24: a change of the Master Quality slider changes slider values only:
\* it writes no config file, creates no backup, leaves the line edits and
\* the check boxes alone and calls on_master_quality_changed once; the
\* config files and the backups change only in a step of write_configs.
C24_MasterQualityWritesNothing ==
    [][/\ q_master' # q_master =>
            /\ w_file' = w_file
            /\ w_bak' = w_bak
            /\ w_ui'.paths = w_ui.paths
            /\ w_ui'.enable = w_ui.enable
            /\ q_calls' = 1
       /\ w_file' # w_file \/ w_bak' # w_bak =>
            /\ q_master' = q_master
            /\ w_pc = "idle"
            /\ w_pc' \in {"returned", "raised"}]_vars

\* the slider was moved after Write to Configs had written the files: the
\* sliders differ from the values written, and the files are the ones
\* write_configs left
C24_Witness ==
    /\ q_pc = "master"
    /\ w_pc = "returned"
    /\ w_file # w_before
    /\ gather_values_of(w_ui) # w_vals
    /\ q_calls = 1

(***************************************************************************)
(* Properties of the patcher and the reader of default.py (SpecTrip)       *)
(***************************************************************************)
\* C25: when replace_number_in_default_py(text, KEY, v) reports a
\* replacement, extract_number_from_default_py of the text it returned is v
\* for KEY, wherever and however often KEY occurs in the text.
C25_AsClaimed ==
    pt_pc = "read" /\ pt_flag => pt_read = <<pt_value>>

(***************************************************************************)
(* Termination of RunnerThread.run (SpecRunnerFair)                        *)
(***************************************************************************)
\* C26: every run of RunnerThread.run eventually reports its outcome; the
\* children of the model write their lines and exit, so each of them
\* terminates once its output is read.
C26_AsClaimed == <>(r_pc = "done")

(***************************************************************************)
(* Properties of load_current_values followed by write_configs (SpecLoad)  *)
(***************************************************************************)
StoredFpf == read_yaml(yaml_installed, w_before["default_config.yaml"], "fpf")
StoredTask == read_json(w_before["task.json"], "task")

\* a value the file stored before the write is the value it stores after
Kept(before, after) == before # None => after = before

\* C27: load_current_values followed by write_configs(gather_values()),
\* with no change by the user in between, leaves every value stored in the
\* four config files as it was, the stored paths and the iteration counts
\* of the report types included.
C27_AsClaimed ==
    q_pc = "load" /\ w_pc = "returned" =>
        /\ Kept(StoredCfg.map.iterations_default,
                ReadBackCfg.map.iterations_default)
        /\ \A k \in PathKeys :
              Kept(StoredCfg.map.paths[k], ReadBackCfg.map.paths[k])
        /\ \A t \in ReportTypes :
              Kept(StoredCfg.map.iterations.count[t],
                   ReadBackCfg.map.iterations.count[t])
        /\ Kept(StoredFpf.map.grounding.max_results,
                ReadBackFpf.map.grounding.max_results)
        /\ Kept(StoredFpf.map.google.max_tokens,
                ReadBackFpf.map.google.max_tokens)
        /\ \A key \in Keys :
              Kept(extract_number_from_default_py(
                       read_text(w_before["default.py"]), key),
                   extract_number_from_default_py(
                       read_text(w_file["default.py"]), key))
        /\ Kept(StoredTask.map.max_sections, ReadBackTask.map.max_sections)

(***************************************************************************)
(* Properties of the Run button and of writes during a run (Spec)          *)
(***************************************************************************)
\* a run launched by the Run button is in flight: its RunnerThread has been
\* started and its outcome has not been handled by the window
RunInFlight == r_pc # "idle"

\* C28: the Run button is disabled whenever a run launched by it is in
\* flight and enabled whenever none is; the step that handles the outcome
\* enables it, a run is started only by a step whose write_configs
\* succeeded, and a click whose write_configs fails starts no thread and no
\* process and leaves the button enabled.
C28_RunButtonFollowsRun ==
    /\ [](g_btn_run <=> ~RunInFlight)
    /\ [][/\ r_pc = "done" /\ r_pc' = "idle" => g_btn_run'
          /\ ~RunInFlight /\ RunInFlight' => g_written' # NotWritten
          /\ g_btn_run /\ g_written' = NotWritten /\ g_dialog' = "error" =>
                /\ g_btn_run'
                /\ ~RunInFlight'
                /\ ActiveProcs' <= ActiveProcs]_vars

\* generate.py is running under the run the button started, and the button
\* is disabled
C28_Witness ==
    /\ r_pc = "stdout"
    /\ c_state = "running"
    /\ g_launch.by = "run"
    /\ ~g_btn_run

\* C30: while the generate.py launched by Run is running, no step changes
\* what is written in the config files.
C30_AsClaimed == [][c_state = "running" => g_written' = g_written]_vars

(***************************************************************************)
(* The keys write_configs does not manage (SpecWrite)                      *)
(***************************************************************************)
\* C29: a block of write_configs that wrote its file left the keys it does
\* not manage as they were read: the providers section and every other
\* unmanaged key of config.yaml, and the unmanaged keys of
\* default_config.yaml and of task.json; a block that did not write left
\* the whole file as it was.
C29_UnmanagedKeysKept ==
    w_pc \in {"returned", "raised"} =>
        /\ IF Completed("config.yaml")
             THEN ReadBackCfg.map.rest = StoredCfg.map.rest
             ELSE w_file["config.yaml"] = w_before["config.yaml"]
        /\ IF Completed("default_config.yaml")
             THEN ReadBackFpf.map.rest = StoredFpf.map.rest
             ELSE w_file["default_config.yaml"] = w_before["default_config.yaml"]
        /\ IF Completed("task.json")
             THEN ReadBackTask.map["rest"] = StoredTask.map["rest"]
             ELSE w_file["task.json"] = w_before["task.json"]

\* all three files stored an unmanaged key and were rewritten, the two YAML
\* files with other values of the managed keys
C29_Witness ==
    /\ w_pc = "returned"
    /\ w_before = StoredFiles
    /\ \A a \in {"config.yaml", "default_config.yaml", "task.json"} : Completed(a)
    /\ \A a \in {"config.yaml", "default_config.yaml"} : w_file[a] # w_before[a]
    /\ StoredCfg.map.rest = <<1>>
    /\ ReadBackCfg.map.rest = <<1>>
    /\ ReadBackFpf.map.rest = <<1>>
    /\ ReadBackTask.map["rest"] = <<1>>
    /\ ReadBackCfg.map.iterations_default # StoredCfg.map.iterations_default

C23_ClampInRangeIdempotent ==
    fn_op = "clamp_int" /\ fn_lo <= fn_hi =>
        /\ \A i \in 1..Len(fn_out) : fn_lo <= fn_out[i] /\ fn_out[i] <= fn_hi
        /\ Len(fn_out) = 2 => fn_out[2] = fn_out[1]

\* a value below the range was clamped twice
C23_Witness ==
    /\ fn_op = "clamp_int"
    /\ fn_lo < fn_hi
    /\ fn_x < fn_lo
    /\ fn_out = <<fn_lo, fn_lo>>

=============================================================================
